---------------------------- MODULE Spec2Model ----------------------------
(***************************************************************************)
(* A model of the command execution core of the Python terminal:          *)
(*   - VirtualFileSystem (src/filesystem/virtual_fs.py): the in-memory    *)
(*     tree of node dicts, path normalisation and the mutating methods;   *)
(*   - FileOperations (src/commands/file_operations.py): the file         *)
(*     commands of a sandboxed session;                                   *)
(*   - Terminal.execute (src/terminal_core.py): parsing, history,         *)
(*     dispatch, and the host shell fallback.                             *)
(*                                                                         *)
(* Python strings that the code takes apart (paths, command lines) are    *)
(* sequences of one-character strings; Chars maps a literal to that       *)
(* sequence.  File contents, which the code only stores and measures,     *)
(* are TLA+ strings.  The node dicts live in a heap indexed by object     *)
(* identity, so that sharing between two directory entries is a state     *)
(* the model can express.                                                 *)
(***************************************************************************)
EXTENDS Integers, Sequences, FiniteSets, TLC

VARIABLES
  mode,             \* "vfs": a bare VirtualFileSystem driven through its methods;
                    \* "virtual": Terminal(use_virtual=True); "real": Terminal(use_virtual=False);
                    \* "files": Terminal(use_virtual=True), with the lines of FileLines;
                    \* "pure": one call of a pure function on an input drawn at the start;
                    \* "web": the Flask application of app.py and its session registry;
                    \* "listing": a VirtualFileSystem whose /tmp was filled, and is listed
  heap,             \* object identity -> node dict (VirtualFileSystem.virtual_fs and below)
  current_path,     \* VirtualFileSystem.current_path
  now,              \* the wall clock, in ticks since the seeded timestamp
  command_history,  \* Terminal.command_history
  running,          \* Terminal.running
  last,             \* the last call made by the client: its arguments, what it returned,
                    \* and the host shell invocations made during it
  terminal_sessions,  \* app.py's dict of that name: session id -> identity of a Terminal
  terminals,          \* identity -> the Terminal object: its fields and its filesystem's
  requests,           \* the requests being served: where each one is in its view function
  frame               \* the call of split_on_operators in progress: its local variables
                      \* and the statement it is at

\* the state of the web application
web == <<terminal_sessions, terminals, requests>>

vars == <<mode, heap, current_path, now, command_history, running, last, web, frame>>

\* no call of split_on_operators was made
NotSplitting == frame = [pc |-> "idle", parts |-> <<>>, i |-> 0, commands |-> <<>>]

\* Number of client calls in one behaviour.
MaxCalls == 2

\* the most pieces (words, blanks, operators) in a line handed to split_on_operators
MaxPieces == 3

\* the most arguments in a list handed to parse_redirections
MaxArgs == 3

\* Longest path string handed to normalize_path in the pure specification.
MaxPathLen == 5

\* the most words in a query made of the words of Vocabulary
MaxWords == 2

-----------------------------------------------------------------------------
\* A string literal of the source or of an input, as its sequence of
\* characters.
Chars(s) == [i \in 1..Len(s) |-> SubSeq(s, i, i)]

-----------------------------------------------------------------------------
\* Python str methods and os.path functions, on character sequences.

startswith(s, prefix) ==
  Len(s) >= Len(prefix) /\ SubSeq(s, 1, Len(prefix)) = prefix

RECURSIVE split(_, _)
split(s, sep) ==
  IF \A i \in 1..Len(s) : s[i] # sep
  THEN <<s>>
  ELSE LET i == CHOOSE k \in 1..Len(s) : s[k] = sep /\ \A j \in 1..(k - 1) : s[j] # sep
       IN  <<SubSeq(s, 1, i - 1)>> \o split(SubSeq(s, i + 1, Len(s)), sep)

RECURSIVE str_join(_, _)
str_join(sep, parts) ==
  IF parts = <<>> THEN <<>>
  ELSE IF Len(parts) = 1 THEN parts[1]
  ELSE parts[1] \o sep \o str_join(sep, Tail(parts))

RECURSIVE rstrip(_, _)
rstrip(s, c) ==
  IF s # <<>> /\ s[Len(s)] = c THEN rstrip(SubSeq(s, 1, Len(s) - 1), c) ELSE s

RECURSIVE lstrip(_, _)
lstrip(s, c) ==
  IF s # <<>> /\ s[1] = c THEN lstrip(Tail(s), c) ELSE s

strip(s, c) == rstrip(lstrip(s, c), c)

\* posixpath.join(a, p) for one component p
path_join(a, p) ==
  IF startswith(p, Chars("/")) THEN p
  ELSE IF a = <<>> \/ a[Len(a)] = "/" THEN a \o p
  ELSE a \o Chars("/") \o p

\* index after the last "/" of p, as posixpath's p.rfind('/') + 1
rfind_sep(p) ==
  IF \E k \in 1..Len(p) : p[k] = "/"
  THEN CHOOSE k \in 1..Len(p) : p[k] = "/" /\ \A j \in (k + 1)..Len(p) : p[j] # "/"
  ELSE 0

dirname(p) ==
  LET stripped(head) ==
        IF head # <<>> /\ (\E k \in 1..Len(head) : head[k] # "/") THEN rstrip(head, "/") ELSE head
  IN  stripped(SubSeq(p, 1, rfind_sep(p)))

basename(p) == SubSeq(p, rfind_sep(p) + 1, Len(p))

-----------------------------------------------------------------------------
\* VirtualFileSystem.normalize_path

\* An exception raised inside normalize_path, where a string is expected: no
\* character sequence equals it, since every character is one character long.
IndexError == <<"IndexError">>

\* list.pop() raises IndexError on an empty list
pop(parts) ==
  IF parts = <<>> THEN <<IndexError>> ELSE SubSeq(parts, 1, Len(parts) - 1)

\* the guard of line 116: `parts and parts[-1] != '..'`
pop_guard_unguarded(parts) == parts = <<>> \/ parts[Len(parts)] # Chars("..")

pop_guard(parts) == parts # <<>> /\ parts[Len(parts)] # Chars("..")

\* the loop of lines 111-119 over path.split('/')
RECURSIVE normalize_parts(_, _)
normalize_parts(todo, parts) ==
  IF todo = <<>> \/ parts = <<IndexError>> THEN parts
  ELSE LET part == Head(todo)
       IN  IF part = Chars("") \/ part = Chars(".")
           THEN normalize_parts(Tail(todo), parts)
           ELSE IF part = Chars("..")
           THEN IF pop_guard(parts)
                THEN normalize_parts(Tail(todo), pop(parts))
                ELSE normalize_parts(Tail(todo), parts)
           ELSE normalize_parts(Tail(todo), Append(parts, part))

\* lines 121-122, with the exception of the loop passed on
normalize_result(parts) ==
  LET result == Chars("/") \o str_join(Chars("/"), parts)
  IN  IF parts = <<IndexError>> THEN IndexError
      ELSE IF result # Chars("/") \/ Len(parts) = 0 THEN result ELSE rstrip(result, "/")

normalize_path(cwd, path) ==
  normalize_result(
    normalize_parts(
      split(IF ~startswith(path, Chars("/")) THEN path_join(cwd, path) ELSE path, "/"),
      <<>>))

-----------------------------------------------------------------------------
\* Python dicts keep insertion order: a dict is a sequence of <<key, value>> pairs
\* with no key twice.

dict_keys(d) == {d[i][1] : i \in 1..Len(d)}

dict_values(d) == {d[i][2] : i \in 1..Len(d)}

dict_get(d, k) == d[CHOOSE i \in 1..Len(d) : d[i][1] = k][2]

\* d[k] = v: an existing key keeps its place, a new one goes last
dict_set(d, k, v) ==
  IF k \in dict_keys(d)
  THEN [i \in 1..Len(d) |-> IF d[i][1] = k THEN <<k, v>> ELSE d[i]]
  ELSE Append(d, <<k, v>>)

\* del d[k]
dict_del(d, k) == SelectSeq(d, LAMBDA kv : kv[1] # k)

-----------------------------------------------------------------------------
\* The node dicts of VirtualFileSystem.virtual_fs, by object identity.

\* get_node's None
NoNode == 0

\* self.virtual_fs['/']: the dict object that __init__ stores under '/'
Root == 1

Directory(t, permissions, children) ==
  [type |-> "directory", created |-> t, modified |-> t,
   permissions |-> permissions, children |-> children]

File(content, t, permissions, size) ==
  [type |-> "file", content |-> content, created |-> t, modified |-> t,
   permissions |-> permissions, size |-> size]

\* The tree built by __init__; timestamp 0 is '2024-01-01 00:00:00'.
SeededHeap ==
  1 :> Directory(0, "drwxr-xr-x",
         << <<Chars("home"), 2>>, <<Chars("tmp"), 9>>, <<Chars("etc"), 10>> >>) @@
  2 :> Directory(0, "drwxr-xr-x", << <<Chars("user"), 3>> >>) @@
  3 :> Directory(0, "drwxr-xr-x",
         << <<Chars("documents"), 4>>, <<Chars("downloads"), 6>>, <<Chars("projects"), 7>> >>) @@
  4 :> Directory(0, "drwxr-xr-x", << <<Chars("readme.txt"), 5>> >>) @@
  5 :> File("Welcome to the virtual file system!\nThis is a safe environment for testing commands.",
            0, "-rw-r--r--", 89) @@
  6 :> Directory(0, "drwxr-xr-x", <<>>) @@
  7 :> Directory(0, "drwxr-xr-x", << <<Chars("script.py"), 8>> >>) @@
  8 :> File("#!/usr/bin/env python3\nprint(\"Hello, Virtual World!\")\n", 0, "-rwxr-xr-x", 46) @@
  9 :> Directory(0, "drwxrwxrwx", <<>>) @@
  10 :> Directory(0, "drwxr-xr-x", << <<Chars("hosts"), 11>> >>) @@
  11 :> File("127.0.0.1 localhost\n::1 localhost\n", 0, "-rw-r--r--", 26)

is_dir(h, n) == n # NoNode /\ h[n].type = "directory"

children_of(h, n) == IF h[n].type = "directory" THEN dict_values(h[n].children) ELSE {}

\* the objects reachable from the objects in frontier
RECURSIVE reach(_, _, _)
reach(h, frontier, seen) ==
  IF frontier = {} THEN seen
  ELSE LET found == seen \cup frontier
       IN  reach(h, (UNION {children_of(h, n) : n \in frontier}) \ found, found)

\* Objects that nothing refers to any more are reclaimed by the interpreter.
collect(h) == [n \in reach(h, {Root}, {}) |-> h[n]]

\* the identity of the next object allocated
new_id(h) == 1 + CHOOSE n \in DOMAIN h : \A m \in DOMAIN h : m <= n

-----------------------------------------------------------------------------
\* VirtualFileSystem: lookups

RECURSIVE walk(_, _, _)
walk(h, current, parts) ==
  IF parts = <<>> THEN current
  ELSE IF h[current].type = "directory" /\ Head(parts) \in dict_keys(h[current].children)
       THEN walk(h, dict_get(h[current].children, Head(parts)), Tail(parts))
       ELSE NoNode

\* lines 128-141, for the normalized path p
lookup(h, p) ==
  IF p = Chars("/") THEN Root ELSE walk(h, Root, split(strip(p, "/"), "/"))

get_node(h, cwd, path) == lookup(h, normalize_path(cwd, path))

\* lines 146-150, for the normalized path p
parent_and_name(h, cwd, p) ==
  [parent |-> get_node(h, cwd, dirname(p)), name |-> basename(p)]

get_parent_node(h, cwd, path) == parent_and_name(h, cwd, normalize_path(cwd, path))

exists(h, cwd, path) == get_node(h, cwd, path) # NoNode

\* node is not None and node.get('type') == type
has_type(h, node, type) == node # NoNode /\ h[node].type = type

is_directory(h, cwd, path) == has_type(h, get_node(h, cwd, path), "directory")

is_file(h, cwd, path) == has_type(h, get_node(h, cwd, path), "file")

\* Optional[str]: <<>> is None, <<c>> is the string c
read_file(h, cwd, path) ==
  LET content_of(node) == IF has_type(h, node, "file") THEN <<h[node].content>> ELSE <<>>
  IN  content_of(get_node(h, cwd, path))

-----------------------------------------------------------------------------
\* Character order, case folding and sorting, as str comparison, str.lower and
\* sorted use them.

\* the printable characters, chr(32) .. chr(126), in code point order (chr(96)
\* cannot be written in a TLA+ string and is spelled out)
Ascii ==
  <<
     " ", "!", "\"", "#", "$", "%", "&", "'", "(", ")", "*", "+", ",", "-", ".", "/",
     "0", "1", "2", "3", "4", "5", "6", "7", "8", "9", ":", ";", "<", "=", ">", "?",
     "@", "A", "B", "C", "D", "E", "F", "G", "H", "I", "J", "K", "L", "M", "N", "O",
     "P", "Q", "R", "S", "T", "U", "V", "W", "X", "Y", "Z", "[", "\\", "]", "^", "_",
     "backtick", "a", "b", "c", "d", "e", "f", "g", "h", "i", "j", "k", "l", "m", "n", "o",
     "p", "q", "r", "s", "t", "u", "v", "w", "x", "y", "z", "{", "|", "}", "~"
  >>

chr(n) == Ascii[n - 31]

ord(c) ==
  IF c = "\t" THEN 9 ELSE IF c = "\n" THEN 10 ELSE IF c = "\r" THEN 13
  ELSE CHOOSE n \in 32..126 : chr(n) = c

\* str.lower() of one character, given its code point
lower_char(c, n) == IF n \in 65..90 THEN chr(n + 32) ELSE c

lower(s) == [i \in 1..Len(s) |-> lower_char(s[i], ord(s[i]))]

\* a < b for two strings
RECURSIVE str_lt(_, _)
str_lt(a, b) ==
  IF b = <<>> THEN FALSE
  ELSE IF a = <<>> THEN TRUE
  ELSE IF a[1] = b[1] THEN str_lt(Tail(a), Tail(b))
  ELSE ord(a[1]) < ord(b[1])

endswith(s, c) == s # <<>> /\ s[Len(s)] = c

\* the key x.lower() alone
listing_name_lt(x, y) == str_lt(lower(x), lower(y))

\* key(x) < key(y) for list_directory's key (x.endswith('/'), x.lower())
listing_key_lt(x, y) ==
  IF endswith(x, "/") # endswith(y, "/") THEN endswith(y, "/")
  ELSE str_lt(lower(x), lower(y))

\* sorted(items, key=...) of list_directory: stable, equal keys keep their order
RECURSIVE sorted(_)
sorted(items) ==
  IF items = <<>> THEN <<>>
  ELSE LET insert(rest, x, k) == SubSeq(rest, 1, k) \o <<x>> \o SubSeq(rest, k + 1, Len(rest))
           place(rest, x) ==
             insert(rest, x, Cardinality({i \in 1..Len(rest) : listing_key_lt(rest[i], x)}))
       IN  place(sorted(Tail(items)), Head(items))

\* lines 286-294, for the node the path names
listing(h, node) ==
  LET items(d) ==
        [i \in 1..Len(d) |->
           IF h[d[i][2]].type = "directory" THEN d[i][1] \o Chars("/") ELSE d[i][1]]
  IN  IF has_type(h, node, "directory") THEN sorted(items(h[node].children)) ELSE <<>>

list_directory(h, cwd, path) == listing(h, get_node(h, cwd, path))

\* the value None where a path is expected: no path holds an element of four letters
None == <<"None">>

\* s.replace('//', '/'): the occurrences from the left, without overlap
RECURSIVE replace_slashes(_)
replace_slashes(s) ==
  IF Len(s) < 2 THEN s
  ELSE IF s[1] = "/" /\ s[2] = "/" THEN <<"/">> \o replace_slashes(SubSeq(s, 3, Len(s)))
  ELSE <<s[1]>> \o replace_slashes(Tail(s))

\* fnmatch.fnmatch(name, pat) for a pattern of literal characters, * and ?
\* (no bracket expression)
RECURSIVE fnmatch(_, _)
fnmatch(name, pat) ==
  IF pat = <<>> THEN name = <<>>
  ELSE IF Head(pat) = "*"
  THEN fnmatch(name, Tail(pat)) \/ (name # <<>> /\ fnmatch(Tail(name), pat))
  ELSE /\ name # <<>>
       /\ Head(pat) = "?" \/ Head(pat) = Head(name)
       /\ fnmatch(Tail(name), Tail(pat))

\* search_recursive over the entries d of the directory at node_path: the matches
\* it appends, in order
RECURSIVE search_recursive(_, _, _, _)
search_recursive(h, node_path, d, pattern) ==
  IF d = <<>> THEN <<>>
  ELSE LET child_path == replace_slashes(node_path \o <<"/">> \o d[1][1])
       IN  (IF fnmatch(lower(d[1][1]), lower(pattern)) THEN <<child_path>> ELSE <<>>)
             \o (IF h[d[1][2]].type = "directory"
                 THEN search_recursive(h, child_path, h[d[1][2]].children, pattern)
                 ELSE <<>>)
             \o search_recursive(h, node_path, Tail(d), pattern)

find_files(h, cwd, pattern, search_path) ==
  LET given == IF search_path = None THEN cwd ELSE search_path
      found(start_node, from) ==
        IF has_type(h, start_node, "directory")
        THEN search_recursive(h, from, h[start_node].children, pattern)
        ELSE <<>>
  IN  found(get_node(h, cwd, given), given)

\* key(x) < key(y) for get_detailed_listing's key (not x['is_directory'], x['name'].lower())
detailed_key_lt(x, y) ==
  IF x.is_directory # y.is_directory THEN x.is_directory
  ELSE str_lt(lower(x.name), lower(y.name))

\* sorted(items, key=...) of get_detailed_listing
RECURSIVE sorted_detailed(_)
sorted_detailed(items) ==
  IF items = <<>> THEN <<>>
  ELSE LET insert(rest, x, k) == SubSeq(rest, 1, k) \o <<x>> \o SubSeq(rest, k + 1, Len(rest))
           place(rest, x) ==
             insert(rest, x, Cardinality({i \in 1..Len(rest) : detailed_key_lt(rest[i], x)}))
       IN  place(sorted_detailed(Tail(items)), Head(items))

\* lines 299-311, for the node the path names
detailed_listing(h, node) ==
  LET items(d) ==
        [i \in 1..Len(d) |->
           [name         |-> d[i][1],
            type         |-> h[d[i][2]].type,
            permissions  |-> h[d[i][2]].permissions,
            size         |-> IF h[d[i][2]].type = "file" THEN h[d[i][2]].size ELSE 0,
            modified     |-> h[d[i][2]].modified,
            is_directory |-> h[d[i][2]].type = "directory"]]
  IN  IF has_type(h, node, "directory") THEN sorted_detailed(items(h[node].children)) ELSE <<>>

get_detailed_listing(h, cwd, path) == detailed_listing(h, get_node(h, cwd, path))

-----------------------------------------------------------------------------
\* VirtualFileSystem: mutating methods.  Each takes the heap h, current_path cwd
\* and the clock reading t, and gives the heap after the call and the value
\* returned.

\* node['children'][name] = n
set_child(h, node, name, n) ==
  [h EXCEPT ![node].children = dict_set(@, name, n)]

\* del node['children'][name]
del_child(h, node, name) ==
  [h EXCEPT ![node].children = dict_del(@, name)]

create_directory(h, cwd, path, t) ==
  LET created(parent, dir_name, n) ==
        [heap |-> set_child((n :> Directory(t, "drwxr-xr-x", <<>>)) @@ h, parent, dir_name, n),
         ret  |-> TRUE]
      attempt(parent, dir_name) ==
        IF is_dir(h, parent) /\ dir_name \notin dict_keys(h[parent].children)
        THEN created(parent, dir_name, new_id(h))
        ELSE [heap |-> h, ret |-> FALSE]
      located(pn) == attempt(pn.parent, pn.name)
  IN  located(get_parent_node(h, cwd, normalize_path(cwd, path)))

create_file(h, cwd, path, content, t) ==
  LET created(parent, file_name, n) ==
        [heap |-> set_child((n :> File(content, t, "-rw-r--r--", Len(content))) @@ h,
                            parent, file_name, n),
         ret  |-> TRUE]
      attempt(parent, file_name) ==
        IF is_dir(h, parent)
        THEN created(parent, file_name, new_id(h))
        ELSE [heap |-> h, ret |-> FALSE]
      located(pn) == attempt(pn.parent, pn.name)
  IN  located(get_parent_node(h, cwd, normalize_path(cwd, path)))

\* write_file without the test of the node's type: whatever node the path names
\* becomes the file
write_file_any_node(h, cwd, path, content, t) ==
  LET written(node, created) ==
        IF node # NoNode
        THEN [heap |-> [h EXCEPT ![node] = File(content, t, "-rw-r--r--", Len(content))],
              ret  |-> TRUE]
        ELSE created
  IN  written(get_node(h, cwd, path), create_file(h, cwd, path, content, t))

\* created is what line 214 returns, taken in the else branch only
write_file(h, cwd, path, content, t) ==
  LET written(node, created) ==
        IF has_type(h, node, "file")
        THEN [heap |-> [h EXCEPT ![node].content = content,
                                 ![node].modified = t,
                                 ![node].size = Len(content)],
              ret  |-> TRUE]
        ELSE created
  IN  written(get_node(h, cwd, path), create_file(h, cwd, path, content, t))

remove_item(h, cwd, path) ==
  LET attempt(parent, item_name) ==
        IF is_dir(h, parent) /\ item_name \in dict_keys(h[parent].children)
        THEN [heap |-> del_child(h, parent, item_name), ret |-> TRUE]
        ELSE [heap |-> h, ret |-> FALSE]
      located(pn) == attempt(pn.parent, pn.name)
  IN  located(get_parent_node(h, cwd, normalize_path(cwd, path)))

\* move_item without the del of line 249: the source entry stays
move_item_linking(h, cwd, src_path, dst_path, t) ==
  LET moved(src, dst, item) ==
        [heap |-> [set_child(h, dst.parent, dst.name, item) EXCEPT ![item].modified = t],
         ret  |-> TRUE]
      attempt(src, dst) ==
        IF /\ is_dir(h, src.parent)
           /\ is_dir(h, dst.parent)
           /\ src.name \in dict_keys(h[src.parent].children)
        THEN moved(src, dst, dict_get(h[src.parent].children, src.name))
        ELSE [heap |-> h, ret |-> FALSE]
  IN  attempt(get_parent_node(h, cwd, normalize_path(cwd, src_path)),
              get_parent_node(h, cwd, normalize_path(cwd, dst_path)))

move_item(h, cwd, src_path, dst_path, t) ==
  LET moved(src, dst, item) ==
        [heap |-> [del_child(set_child(h, dst.parent, dst.name, item), src.parent, src.name)
                     EXCEPT ![item].modified = t],
         ret  |-> TRUE]
      attempt(src, dst) ==
        IF /\ is_dir(h, src.parent)
           /\ is_dir(h, dst.parent)
           /\ src.name \in dict_keys(h[src.parent].children)
        THEN moved(src, dst, dict_get(h[src.parent].children, src.name))
        ELSE [heap |-> h, ret |-> FALSE]
  IN  attempt(get_parent_node(h, cwd, normalize_path(cwd, src_path)),
              get_parent_node(h, cwd, normalize_path(cwd, dst_path)))

\* copy.deepcopy(h[node]): every object reachable from node is cloned once, and
\* the clones refer to one another as the originals do.
clone_id(h, objs, n) == new_id(h) - 1 + Cardinality({m \in objs : m <= n})

clone_children(h, objs, d) ==
  [i \in 1..Len(d) |-> <<d[i][1], clone_id(h, objs, d[i][2])>>]

\* copy.copy in place of copy.deepcopy at the top and below: the same objects
shallow_copy(h, node) == [heap |-> h, item |-> node]

deepcopy(h, node) ==
  LET original(objs, c) == CHOOSE m \in objs : clone_id(h, objs, m) = c
      clone(objs, n) ==
        IF h[n].type = "directory"
        THEN [h[n] EXCEPT !.children = clone_children(h, objs, @)]
        ELSE h[n]
      copied(objs) ==
        [heap |-> [c \in {clone_id(h, objs, n) : n \in objs} |-> clone(objs, original(objs, c))] @@ h,
         item |-> clone_id(h, objs, node)]
  IN  copied(reach(h, {node}, {}))

\* copy_item that assigns the destination parent's children anew: {dst_name: item_copy}
copy_item_alone(h, cwd, src_path, dst_path, t) ==
  LET stamped(c) == [c.heap EXCEPT ![c.item].created = t, ![c.item].modified = t]
      copied(dst, c) ==
        [heap |-> [stamped(c) EXCEPT ![dst.parent].children = <<<<dst.name, c.item>>>>],
         ret  |-> TRUE]
      attempt(src_node, dst) ==
        IF src_node # NoNode /\ is_dir(h, dst.parent)
        THEN copied(dst, deepcopy(h, src_node))
        ELSE [heap |-> h, ret |-> FALSE]
  IN  attempt(get_node(h, cwd, normalize_path(cwd, src_path)),
              get_parent_node(h, cwd, normalize_path(cwd, dst_path)))

copy_item(h, cwd, src_path, dst_path, t) ==
  LET stamped(c) == [c.heap EXCEPT ![c.item].created = t, ![c.item].modified = t]
      copied(dst, c) == [heap |-> set_child(stamped(c), dst.parent, dst.name, c.item), ret |-> TRUE]
      attempt(src_node, dst) ==
        IF src_node # NoNode /\ is_dir(h, dst.parent)
        THEN copied(dst, deepcopy(h, src_node))
        ELSE [heap |-> h, ret |-> FALSE]
  IN  attempt(get_node(h, cwd, normalize_path(cwd, src_path)),
              get_parent_node(h, cwd, normalize_path(cwd, dst_path)))

\* change_directory without the test of line 348
change_to_unchecked(h, cwd, target_path) == [current_path |-> target_path, ret |-> TRUE]

\* gives the new current_path and the value returned
\* lines 348-351, for the normalized target_path
change_to(h, cwd, target_path) ==
  IF is_directory(h, cwd, target_path)
  THEN [current_path |-> target_path, ret |-> TRUE]
  ELSE [current_path |-> cwd, ret |-> FALSE]

change_directory(h, cwd, path) ==
  change_to(h, cwd, normalize_path(cwd, IF path = Chars("~") THEN Chars("/home/user") ELSE path))

-----------------------------------------------------------------------------
\* CommandParser.parse: shlex.split in POSIX mode.

Whitespace == {" ", "\t", "\r", "\n"}

Quotes == {"'", "\""}

\* str.strip()
RECURSIVE str_strip(_)
str_strip(s) ==
  IF s # <<>> /\ s[1] \in Whitespace THEN str_strip(Tail(s))
  ELSE IF s # <<>> /\ s[Len(s)] \in Whitespace THEN str_strip(SubSeq(s, 1, Len(s) - 1))
  ELSE s

\* shlex.read_token, called until the input ends: state, escapedstate, token and
\* quoted are the lexer's fields of those names, out the tokens read so far.
RECURSIVE shlex_read(_, _, _, _, _, _, _)
shlex_read(s, i, state, escapedstate, token, quoted, out) ==
  IF i > Len(s)
  THEN IF state \in Quotes THEN [ok |-> FALSE, error |-> "No closing quotation"]
       ELSE IF state = "\\" THEN [ok |-> FALSE, error |-> "No escaped character"]
       ELSE [ok |-> TRUE, tokens |-> IF token # <<>> \/ quoted THEN Append(out, token) ELSE out]
  ELSE LET c == s[i]
       IN  IF state = " "
           THEN IF c \in Whitespace
                THEN shlex_read(s, i + 1, " ", escapedstate, token, quoted, out)
                ELSE IF c = "\\" THEN shlex_read(s, i + 1, "\\", "a", token, quoted, out)
                ELSE IF c \in Quotes THEN shlex_read(s, i + 1, c, escapedstate, token, quoted, out)
                ELSE shlex_read(s, i + 1, "a", escapedstate, <<c>>, quoted, out)
           ELSE IF state \in Quotes
           THEN IF c = state THEN shlex_read(s, i + 1, "a", escapedstate, token, TRUE, out)
                ELSE IF c = "\\" /\ state = "\""
                THEN shlex_read(s, i + 1, "\\", state, token, TRUE, out)
                ELSE shlex_read(s, i + 1, state, escapedstate, Append(token, c), TRUE, out)
           ELSE IF state = "\\"
           THEN LET kept == IF escapedstate \in Quotes /\ c # "\\" /\ c # escapedstate
                            THEN Append(token, "\\") ELSE token
                IN  shlex_read(s, i + 1, escapedstate, escapedstate, Append(kept, c), quoted, out)
           ELSE IF c \in Whitespace
                THEN IF token # <<>> \/ quoted
                     THEN shlex_read(s, i + 1, " ", " ", <<>>, FALSE, Append(out, token))
                     ELSE shlex_read(s, i + 1, " ", escapedstate, token, quoted, out)
                ELSE IF c \in Quotes THEN shlex_read(s, i + 1, c, escapedstate, token, quoted, out)
                ELSE IF c = "\\" THEN shlex_read(s, i + 1, "\\", "a", token, quoted, out)
                ELSE shlex_read(s, i + 1, "a", escapedstate, Append(token, c), quoted, out)

\* [ok |-> TRUE, cmd, args], or [ok |-> FALSE, error] when parse raises ValueError
parse(command_line) ==
  IF str_strip(command_line) = <<>> THEN [ok |-> TRUE, cmd |-> <<>>, args |-> <<>>]
  ELSE LET r == shlex_read(str_strip(command_line), 1, " ", " ", <<>>, FALSE, <<>>)
       IN  IF ~r.ok THEN [ok |-> FALSE, error |-> r.error]
           ELSE IF r.tokens = <<>> THEN [ok |-> TRUE, cmd |-> <<>>, args |-> <<>>]
           ELSE [ok |-> TRUE, cmd |-> Head(r.tokens), args |-> Tail(r.tokens)]

-----------------------------------------------------------------------------
\* The text a handler returns: the pieces that '\n'.join puts together.  A piece
\* is a message (the fixed words of an f-string, its colour and the value put
\* into it), a string computed from the arguments or the state, or a file's content.

Msg(color, text, arg) == [kind |-> "msg", color |-> color, text |-> text, arg |-> arg]

Str(value) == [kind |-> "str", value |-> value]

Content(value) == [kind |-> "content", value |-> value]

\* the truth value of the joined string: it is not empty
truthy(out) ==
  \/ Len(out) > 1
  \/ /\ Len(out) = 1
     /\ ~(out[1].kind = "str" /\ out[1].value = <<>>)
     /\ ~(out[1].kind = "content" /\ out[1].value = "")

\* what a handler leaves and returns
Res(h, cwd, out) == [heap |-> h, current_path |-> cwd, out |-> out]

-----------------------------------------------------------------------------
\* FileOperations with use_virtual true.

cmd_cd(h, cwd, args) ==
  LET path == IF args # <<>> THEN args[1] ELSE Chars("~")
      changed(r) ==
        IF r.ret THEN Res(h, r.current_path, <<>>)
        ELSE Res(h, cwd, <<Msg("RED", "Directory not found: ", path)>>)
  IN  changed(change_directory(h, cwd, path))

cmd_pwd(h, cwd, args) == Res(h, cwd, <<Str(cwd)>>)

\* cmd_mkdir with a loop that goes on after the first name
RECURSIVE mkdir_all(_, _, _, _, _)
mkdir_all(h, cwd, names, t, results) ==
  LET made(r) ==
        IF r.ret
        THEN mkdir_all(r.heap, cwd, Tail(names), t,
                       results \o <<Msg("GREEN", "Directory created: ", Head(names))>>)
        ELSE mkdir_all(h, cwd, Tail(names), t,
                       results \o <<Msg("RED", "Failed to create directory: ", Head(names))>>)
  IN  IF names = <<>> THEN Res(h, cwd, results)
      ELSE made(create_directory(h, cwd, Head(names), t))

cmd_mkdir_all(h, cwd, args, t) ==
  IF args = <<>> THEN Res(h, cwd, <<Msg("YELLOW", "Usage: mkdir <directory_name>", <<>>)>>)
  ELSE mkdir_all(h, cwd, SelectSeq(args, LAMBDA a : ~startswith(a, Chars("-"))), t, <<>>)

cmd_mkdir(h, cwd, args, t) ==
  LET names == SelectSeq(args, LAMBDA a : ~startswith(a, Chars("-")))
      made(r) ==
        IF r.ret
        THEN Res(r.heap, cwd, <<Msg("GREEN", "Directory created: ", names[1])>>)
        ELSE Res(h, cwd, <<Msg("RED", "Failed to create directory: ", names[1])>>)
  IN  IF args = <<>> THEN Res(h, cwd, <<Msg("YELLOW", "Usage: mkdir <directory_name>", <<>>)>>)
      ELSE IF names = <<>> THEN Res(h, cwd, <<>>)
      ELSE made(create_directory(h, cwd, names[1], t))

\* is_a_directory, items and removed are what lines 168, 169 and 173 get from
\* is_directory, list_directory and remove_item, each taken only where the code
\* makes the call
\* cmd_rmdir without the test of items at line 170
cmd_rmdir_unchecked(h, cwd, args) ==
  LET dir_name == args[1]
      answer(is_a_directory, removed) ==
        IF is_a_directory /\ removed.ret
        THEN Res(removed.heap, cwd, <<Msg("GREEN", "Directory removed: ", dir_name)>>)
        ELSE Res(h, cwd, <<Msg("RED", "Directory not found: ", dir_name)>>)
  IN  IF args = <<>> THEN Res(h, cwd, <<Msg("YELLOW", "Usage: rmdir <directory_name>", <<>>)>>)
      ELSE answer(is_directory(h, cwd, dir_name), remove_item(h, cwd, dir_name))

cmd_rmdir(h, cwd, args) ==
  LET dir_name == args[1]
      answer(is_a_directory, items, removed) ==
        IF is_a_directory /\ items # <<>>
        THEN Res(h, cwd, <<Msg("RED", "Directory not empty: ", dir_name)>>)
        ELSE IF is_a_directory /\ removed.ret
        THEN Res(removed.heap, cwd, <<Msg("GREEN", "Directory removed: ", dir_name)>>)
        ELSE Res(h, cwd, <<Msg("RED", "Directory not found: ", dir_name)>>)
  IN  IF args = <<>> THEN Res(h, cwd, <<Msg("YELLOW", "Usage: rmdir <directory_name>", <<>>)>>)
      ELSE answer(is_directory(h, cwd, dir_name),
                  list_directory(h, cwd, dir_name),
                  remove_item(h, cwd, dir_name))

\* the loop of cmd_rm over items_to_remove; found, is_a_directory and removed
\* are what exists, is_directory and remove_item return for the item
RECURSIVE rm_items(_, _, _, _, _, _)
rm_items(h, cwd, items, recursive, force, results) ==
  LET item_name == Head(items)
      rest(h1, piece) == rm_items(h1, cwd, Tail(items), recursive, force, results \o piece)
      step(found, is_a_directory, removed) ==
        IF found
        THEN IF is_a_directory /\ ~recursive
             THEN rest(h, <<Msg("RED", "Cannot remove directory: use -r for recursive", item_name)>>)
             ELSE IF removed.ret
             THEN rest(removed.heap, <<Msg("GREEN", "Removed: ", item_name)>>)
             ELSE rest(h, <<Msg("RED", "Failed to remove: ", item_name)>>)
        ELSE IF ~force
             THEN rest(h, <<Msg("RED", "File not found: ", item_name)>>)
             ELSE rest(h, <<>>)
  IN  IF items = <<>> THEN Res(h, cwd, results)
      ELSE step(exists(h, cwd, item_name),
                is_directory(h, cwd, item_name),
                remove_item(h, cwd, item_name))

in_args(args, flag) == \E i \in 1..Len(args) : args[i] = flag

\* cmd_rm with recursive true whatever the arguments
cmd_rm_recursive(h, cwd, args) ==
  IF args = <<>> THEN Res(h, cwd, <<Msg("YELLOW", "Usage: rm <file_or_directory>", <<>>)>>)
  ELSE LET force == in_args(args, Chars("-f")) \/ in_args(args, Chars("--force"))
           items_to_remove == SelectSeq(args, LAMBDA a : ~startswith(a, Chars("-")))
       IN  IF items_to_remove = <<>>
           THEN Res(h, cwd, <<Msg("YELLOW", "No items specified for removal", <<>>)>>)
           ELSE rm_items(h, cwd, items_to_remove, TRUE, force, <<>>)

cmd_rm(h, cwd, args) ==
  IF args = <<>> THEN Res(h, cwd, <<Msg("YELLOW", "Usage: rm <file_or_directory>", <<>>)>>)
  ELSE LET recursive == in_args(args, Chars("-r")) \/ in_args(args, Chars("--recursive"))
           force     == in_args(args, Chars("-f")) \/ in_args(args, Chars("--force"))
           items_to_remove == SelectSeq(args, LAMBDA a : ~startswith(a, Chars("-")))
       IN  IF items_to_remove = <<>>
           THEN Res(h, cwd, <<Msg("YELLOW", "No items specified for removal", <<>>)>>)
           ELSE rm_items(h, cwd, items_to_remove, recursive, force, <<>>)

\* the loop of cmd_touch over args
RECURSIVE touch_files(_, _, _, _, _)
\* touch_files with the content of an existing file emptied
RECURSIVE touch_files_rewriting(_, _, _, _, _)
touch_files_rewriting(h, cwd, names, t, results) ==
  LET file_name == Head(names)
      rest(h1, piece) == touch_files_rewriting(h1, cwd, Tail(names), t, results \o piece)
      step(found, node, created) ==
        IF found
        THEN IF h[node].type = "file"
             THEN rest([h EXCEPT ![node].modified = t, ![node].content = "", ![node].size = 0],
                       <<Msg("GREEN", "Updated timestamp: ", file_name)>>)
             ELSE rest(h, <<>>)
        ELSE IF created.ret
             THEN rest(created.heap, <<Msg("GREEN", "File created: ", file_name)>>)
             ELSE rest(h, <<Msg("RED", "Failed to create file: ", file_name)>>)
  IN  IF names = <<>> THEN Res(h, cwd, results)
      ELSE step(exists(h, cwd, file_name),
                get_node(h, cwd, file_name),
                create_file(h, cwd, file_name, "", t))

touch_files(h, cwd, names, t, results) ==
  LET file_name == Head(names)
      rest(h1, piece) == touch_files(h1, cwd, Tail(names), t, results \o piece)
      step(found, node, created) ==
        IF found
        THEN IF h[node].type = "file"
             THEN rest([h EXCEPT ![node].modified = t],
                       <<Msg("GREEN", "Updated timestamp: ", file_name)>>)
             ELSE rest(h, <<>>)
        ELSE IF created.ret
             THEN rest(created.heap, <<Msg("GREEN", "File created: ", file_name)>>)
             ELSE rest(h, <<Msg("RED", "Failed to create file: ", file_name)>>)
  IN  IF names = <<>> THEN Res(h, cwd, results)
      ELSE step(exists(h, cwd, file_name),
                get_node(h, cwd, file_name),
                create_file(h, cwd, file_name, "", t))

cmd_touch(h, cwd, args, t) ==
  IF args = <<>> THEN Res(h, cwd, <<Msg("YELLOW", "Usage: touch <filename>", <<>>)>>)
  ELSE touch_files(h, cwd, args, t, <<>>)

cmd_cat(h, cwd, args) ==
  LET shown(file_name, content) ==
        IF content # <<>> THEN Content(content[1])
        ELSE Msg("RED", "File not found or is not a file: ", file_name)
  IN  IF args = <<>> THEN Res(h, cwd, <<Msg("YELLOW", "Usage: cat <filename>", <<>>)>>)
      ELSE Res(h, cwd, [i \in 1..Len(args) |-> shown(args[i], read_file(h, cwd, args[i]))])

\* cmd_cp without the test of line 303
cmd_cp_any_source(h, cwd, args, t) ==
  LET file_args == SelectSeq(args, LAMBDA a : ~startswith(a, Chars("-")))
      usage     == Res(h, cwd, <<Msg("YELLOW", "Usage: cp <source> <destination>", <<>>)>>)
      answer(source, dest, found, copied) ==
        IF ~found
        THEN Res(h, cwd, <<Msg("RED", "Source not found: ", source)>>)
        ELSE IF copied.ret
        THEN Res(copied.heap, cwd, <<Msg("GREEN", "Copied", <<source, dest>>)>>)
        ELSE Res(h, cwd, <<Msg("RED", "Failed to copy", <<source, dest>>)>>)
  IN  IF Len(args) < 2 THEN usage
      ELSE IF Len(file_args) < 2 THEN usage
      ELSE answer(file_args[1], file_args[2],
                  exists(h, cwd, file_args[1]),
                  copy_item(h, cwd, file_args[1], file_args[2], t))

cmd_cp(h, cwd, args, t) ==
  LET recursive == in_args(args, Chars("-r")) \/ in_args(args, Chars("--recursive"))
      file_args == SelectSeq(args, LAMBDA a : ~startswith(a, Chars("-")))
      usage     == Res(h, cwd, <<Msg("YELLOW", "Usage: cp <source> <destination>", <<>>)>>)
      answer(source, dest, found, is_a_directory, copied) ==
        IF ~found
        THEN Res(h, cwd, <<Msg("RED", "Source not found: ", source)>>)
        ELSE IF is_a_directory /\ ~recursive
        THEN Res(h, cwd, <<Msg("RED", "Cannot copy directory: use -r for recursive", source)>>)
        ELSE IF copied.ret
        THEN Res(copied.heap, cwd, <<Msg("GREEN", "Copied", <<source, dest>>)>>)
        ELSE Res(h, cwd, <<Msg("RED", "Failed to copy", <<source, dest>>)>>)
  IN  IF Len(args) < 2 THEN usage
      ELSE IF Len(file_args) < 2 THEN usage
      ELSE answer(file_args[1], file_args[2],
                  exists(h, cwd, file_args[1]),
                  is_directory(h, cwd, file_args[1]),
                  copy_item(h, cwd, file_args[1], file_args[2], t))

cmd_mv(h, cwd, args, t) ==
  LET answer(source, dest, found, moved) ==
        IF ~found
        THEN Res(h, cwd, <<Msg("RED", "Source not found: ", source)>>)
        ELSE IF moved.ret
        THEN Res(moved.heap, cwd, <<Msg("GREEN", "Moved", <<source, dest>>)>>)
        ELSE Res(h, cwd, <<Msg("RED", "Failed to move", <<source, dest>>)>>)
  IN  IF Len(args) < 2
      THEN Res(h, cwd, <<Msg("YELLOW", "Usage: mv <source> <destination>", <<>>)>>)
      ELSE answer(args[1], args[2],
                  exists(h, cwd, args[1]),
                  move_item(h, cwd, args[1], args[2], t))

\* a line of the detailed listing, lines 35-38
ls_line(item) ==
  [permissions |-> item.permissions,
   size_str    |-> IF item.type = "file" THEN item.size ELSE -1,
   modified    |-> item.modified,
   name        |-> IF item.is_directory THEN item.name \o Chars("/") ELSE item.name]

\* lines 20-54; size_str -1 stands for the text 'dir'
cmd_ls(h, cwd, args) ==
  LET path     == IF args # <<>> THEN args[1] ELSE Chars(".")
      detailed == in_args(args, Chars("-l")) \/ in_args(args, Chars("--long"))
      listed(items) ==
        IF items = <<>> THEN Res(h, cwd, <<Msg("YELLOW", "(empty directory)", <<>>)>>)
        ELSE Res(h, cwd, <<[kind |-> "listing", detailed |-> detailed, items |-> items]>>)
      lines(items) == [i \in 1..Len(items) |-> ls_line(items[i])]
  IN  IF detailed
      THEN listed(lines(get_detailed_listing(h, cwd, IF path = Chars(".") THEN cwd ELSE path)))
      ELSE listed(list_directory(h, cwd, IF path = Chars(".") THEN cwd ELSE path))

-----------------------------------------------------------------------------
\* Regular expressions, as the re module parses them: a pattern is a sequence of
\* items, matched by backtracking in the order re tries the alternatives.

\* sre's MAXREPEAT: no upper limit on a repetition
Inf == -1

Lit(c) == [op |-> "lit", c |-> c]

AnyChar == [op |-> "any"]

In(negate, chars, categories) ==
  [op |-> "in", negate |-> negate, chars |-> chars, categories |-> categories]

Rep(lo, hi, greedy, body) ==
  [op |-> "rep", lo |-> lo, hi |-> hi, greedy |-> greedy, body |-> body]

Sub(group, body) == [op |-> "sub", group |-> group, body |-> body]

Branch(alts) == [op |-> "branch", alts |-> alts]

Ref(group) == [op |-> "ref", group |-> group]

\* \s and \w for the characters the inputs use
in_category(c, category) ==
  IF category = "space" THEN c \in Whitespace
  ELSE IF c \in Whitespace THEN FALSE
  ELSE ord(c) \in (48..57) \cup (65..90) \cup (97..122) \cup {95}

\* two characters that re.IGNORECASE takes for the same
same_letter(a, b) == lower_char(a, ord(a)) = lower_char(b, ord(b))

in_class(c, item) ==
  item.negate # (\/ \E x \in item.chars : same_letter(x, c)
                 \/ \E category \in item.categories : in_category(c, category))

\* one item that takes exactly one character
is_single(item) == item.op \in {"lit", "any", "in"}

takes(item, c) ==
  CASE item.op = "lit" -> same_letter(c, item.c)
    [] item.op = "any" -> c # "\n"
    [] item.op = "in"  -> in_class(c, item)

NoMatch == [ok |-> FALSE, end |-> 0, groups |-> <<>>]

no_groups == <<<<>>, <<>>, <<>>, <<>>>>

\* the number of leading single-character items of items
single_run(items) ==
  CHOOSE n \in 0..Len(items) :
    /\ \A k \in 1..n : is_single(items[k])
    /\ n < Len(items) => ~is_single(items[n + 1])

\* the most characters from position i of s that a repetition of the
\* single-character item can take, at most hi of them
longest_run(item, hi, s, i) ==
  CHOOSE n \in 0..(Len(s) - i + 1) :
    /\ \A k \in 0..(n - 1) : takes(item, s[i + k]) /\ k # hi
    /\ i + n > Len(s) \/ ~takes(item, s[i + n]) \/ n = hi

\* Of the tries <<k, match>>, the match of the first k that has one: the
\* greatest such k when counting down, the least when counting up.
first_try(tries, down) ==
  LET found == {try \in tries : try[2].ok}
  IN  IF found = {} THEN NoMatch
      ELSE (CHOOSE try \in found : \A other \in found :
              IF down THEN try[1] >= other[1] ELSE try[1] <= other[1])[2]

\* the first of two matches that is one
or_match(first, second) == IF first.ok THEN first ELSE second

\* Match items at position i of s (re.IGNORECASE); groups holds the text of the
\* groups closed so far.  NoMatch, or the end and the groups of the match that
\* re's backtracking finds first.  A run of single-character items and a
\* repetition of one are taken in one step: the repetition counts are tried
\* from the most for a greedy one, from the fewest for a lazy one.
RECURSIVE re_match(_, _, _, _)
re_match(items, s, i, groups) ==
  LET item == Head(items)
      rest == Tail(items)
      \* the n leading single-character items
      run(n) ==
        IF i + n - 1 <= Len(s) /\ \A k \in 1..n : takes(items[k], s[i + k - 1])
        THEN re_match(SubSeq(items, n + 1, Len(items)), s, i + n, groups)
        ELSE NoMatch
      \* a reference to the group that holds g
      ref(g) ==
        IF i + Len(g) - 1 <= Len(s) /\ lower(SubSeq(s, i, i + Len(g) - 1)) = lower(g)
        THEN re_match(rest, s, i + Len(g), groups)
        ELSE NoMatch
      \* one more of the body, then up to `fewer` more
      more(fewer) ==
        re_match(item.body \o <<Rep(0, fewer, item.greedy, item.body)>> \o rest, s, i, groups)
      stop == re_match(rest, s, i, groups)
  IN  IF items = <<>> THEN [ok |-> TRUE, end |-> i, groups |-> groups]
      ELSE CASE is_single(item) -> run(single_run(items))
             [] item.op = "sub" ->
                  IF item.group = 0 THEN re_match(item.body \o rest, s, i, groups)
                  ELSE re_match(item.body \o <<[op |-> "close", group |-> item.group, start |-> i]>>
                                  \o rest, s, i, groups)
             [] item.op = "close" ->
                  re_match(rest, s, i, [groups EXCEPT ![item.group] = SubSeq(s, item.start, i - 1)])
             [] item.op = "ref" -> ref(groups[item.group])
             [] item.op = "branch" ->
                  IF item.alts = <<>> THEN NoMatch
                  ELSE or_match(re_match(Head(item.alts) \o rest, s, i, groups),
                                re_match(<<Branch(Tail(item.alts))>> \o rest, s, i, groups))
             [] item.op = "rep" /\ Len(item.body) = 1 /\ is_single(item.body[1]) ->
                  first_try({<<k, re_match(rest, s, i + k, groups)>> :
                               k \in item.lo..longest_run(item.body[1], item.hi, s, i)},
                            item.greedy)
             [] item.op = "rep" ->
                  IF item.lo > 0
                  THEN re_match(item.body
                                  \o <<Rep(item.lo - 1, IF item.hi = Inf THEN Inf ELSE item.hi - 1,
                                           item.greedy, item.body)>>
                                  \o rest, s, i, groups)
                  ELSE IF item.hi = 0 THEN stop
                  ELSE IF item.greedy
                  THEN or_match(more(IF item.hi = Inf THEN Inf ELSE item.hi - 1), stop)
                  ELSE or_match(stop, more(IF item.hi = Inf THEN Inf ELSE item.hi - 1))

\* re.search(pattern, s, re.IGNORECASE): the match at the leftmost start position
\* that has one
re_search(pattern, s) ==
  first_try({<<i, re_match(pattern, s, i, no_groups)>> : i \in 1..(Len(s) + 1)}, FALSE)

-----------------------------------------------------------------------------
\* AICommandInterpreter

\* self.command_patterns, in declaration order
command_patterns == <<
  [type |-> "create_dir", patterns |-> <<
       \* (?:create|make).*?(?:folder|directory).*?(?:called|named)?\s+(["\']?)(\w+)\1
       <<Branch(<<<<Lit("c"), Lit("r"), Lit("e"), Lit("a"), Lit("t"), Lit("e")>>, <<Lit("m"), Lit("a"), Lit("k"), Lit("e")>>>>), Rep(0, Inf, FALSE, <<AnyChar>>), Branch(<<<<Lit("f"), Lit("o"), Lit("l"), Lit("d"), Lit("e"), Lit("r")>>, <<Lit("d"), Lit("i"), Lit("r"), Lit("e"), Lit("c"), Lit("t"), Lit("o"), Lit("r"), Lit("y")>>>>), Rep(0, Inf, FALSE, <<AnyChar>>), Rep(0, 1, TRUE, <<Branch(<<<<Lit("c"), Lit("a"), Lit("l"), Lit("l"), Lit("e"), Lit("d")>>, <<Lit("n"), Lit("a"), Lit("m"), Lit("e"), Lit("d")>>>>)>>), Rep(1, Inf, TRUE, <<In(FALSE, {}, {"space"})>>), Sub(1, <<Rep(0, 1, TRUE, <<In(FALSE, {"\"", "'"}, {})>>)>>), Sub(2, <<Rep(1, Inf, TRUE, <<In(FALSE, {}, {"word"})>>)>>), Ref(1)>>,
       \* mkdir\s+(["\']?)(\w+)\1
       <<Lit("m"), Lit("k"), Lit("d"), Lit("i"), Lit("r"), Rep(1, Inf, TRUE, <<In(FALSE, {}, {"space"})>>), Sub(1, <<Rep(0, 1, TRUE, <<In(FALSE, {"\"", "'"}, {})>>)>>), Sub(2, <<Rep(1, Inf, TRUE, <<In(FALSE, {}, {"word"})>>)>>), Ref(1)>>,
       \* new\s+(?:folder|directory)\s+(["\']?)(\w+)\1
       <<Lit("n"), Lit("e"), Lit("w"), Rep(1, Inf, TRUE, <<In(FALSE, {}, {"space"})>>), Branch(<<<<Lit("f"), Lit("o"), Lit("l"), Lit("d"), Lit("e"), Lit("r")>>, <<Lit("d"), Lit("i"), Lit("r"), Lit("e"), Lit("c"), Lit("t"), Lit("o"), Lit("r"), Lit("y")>>>>), Rep(1, Inf, TRUE, <<In(FALSE, {}, {"space"})>>), Sub(1, <<Rep(0, 1, TRUE, <<In(FALSE, {"\"", "'"}, {})>>)>>), Sub(2, <<Rep(1, Inf, TRUE, <<In(FALSE, {}, {"word"})>>)>>), Ref(1)>>
  >>],
  [type |-> "create_file", patterns |-> <<
       \* (?:create|make).*?file.*?(?:called|named)?\s+(["\']?)([^"\'\s]+)\1
       <<Branch(<<<<Lit("c"), Lit("r"), Lit("e"), Lit("a"), Lit("t"), Lit("e")>>, <<Lit("m"), Lit("a"), Lit("k"), Lit("e")>>>>), Rep(0, Inf, FALSE, <<AnyChar>>), Lit("f"), Lit("i"), Lit("l"), Lit("e"), Rep(0, Inf, FALSE, <<AnyChar>>), Rep(0, 1, TRUE, <<Branch(<<<<Lit("c"), Lit("a"), Lit("l"), Lit("l"), Lit("e"), Lit("d")>>, <<Lit("n"), Lit("a"), Lit("m"), Lit("e"), Lit("d")>>>>)>>), Rep(1, Inf, TRUE, <<In(FALSE, {}, {"space"})>>), Sub(1, <<Rep(0, 1, TRUE, <<In(FALSE, {"\"", "'"}, {})>>)>>), Sub(2, <<Rep(1, Inf, TRUE, <<In(TRUE, {"\"", "'"}, {"space"})>>)>>), Ref(1)>>,
       \* touch\s+(["\']?)([^"\'\s]+)\1
       <<Lit("t"), Lit("o"), Lit("u"), Lit("c"), Lit("h"), Rep(1, Inf, TRUE, <<In(FALSE, {}, {"space"})>>), Sub(1, <<Rep(0, 1, TRUE, <<In(FALSE, {"\"", "'"}, {})>>)>>), Sub(2, <<Rep(1, Inf, TRUE, <<In(TRUE, {"\"", "'"}, {"space"})>>)>>), Ref(1)>>,
       \* new\s+file\s+(["\']?)([^"\'\s]+)\1
       <<Lit("n"), Lit("e"), Lit("w"), Rep(1, Inf, TRUE, <<In(FALSE, {}, {"space"})>>), Lit("f"), Lit("i"), Lit("l"), Lit("e"), Rep(1, Inf, TRUE, <<In(FALSE, {}, {"space"})>>), Sub(1, <<Rep(0, 1, TRUE, <<In(FALSE, {"\"", "'"}, {})>>)>>), Sub(2, <<Rep(1, Inf, TRUE, <<In(TRUE, {"\"", "'"}, {"space"})>>)>>), Ref(1)>>
  >>],
  [type |-> "list", patterns |-> <<
       \* (?:list|show).*?(?:files|directories|contents|what\'?s here)
       <<Branch(<<<<Lit("l"), Lit("i"), Lit("s"), Lit("t")>>, <<Lit("s"), Lit("h"), Lit("o"), Lit("w")>>>>), Rep(0, Inf, FALSE, <<AnyChar>>), Branch(<<<<Lit("f"), Lit("i"), Lit("l"), Lit("e"), Lit("s")>>, <<Lit("d"), Lit("i"), Lit("r"), Lit("e"), Lit("c"), Lit("t"), Lit("o"), Lit("r"), Lit("i"), Lit("e"), Lit("s")>>, <<Lit("c"), Lit("o"), Lit("n"), Lit("t"), Lit("e"), Lit("n"), Lit("t"), Lit("s")>>, <<Lit("w"), Lit("h"), Lit("a"), Lit("t"), Rep(0, 1, TRUE, <<Lit("'")>>), Lit("s"), Lit(" "), Lit("h"), Lit("e"), Lit("r"), Lit("e")>>>>)>>,
       \* what.*?(?:here|directory|folder)
       <<Lit("w"), Lit("h"), Lit("a"), Lit("t"), Rep(0, Inf, FALSE, <<AnyChar>>), Branch(<<<<Lit("h"), Lit("e"), Lit("r"), Lit("e")>>, <<Lit("d"), Lit("i"), Lit("r"), Lit("e"), Lit("c"), Lit("t"), Lit("o"), Lit("r"), Lit("y")>>, <<Lit("f"), Lit("o"), Lit("l"), Lit("d"), Lit("e"), Lit("r")>>>>)>>,
       \* ls
       <<Lit("l"), Lit("s")>>,
       \* dir
       <<Lit("d"), Lit("i"), Lit("r")>>,
       \* show\s+me.*?(?:files|contents)
       <<Lit("s"), Lit("h"), Lit("o"), Lit("w"), Rep(1, Inf, TRUE, <<In(FALSE, {}, {"space"})>>), Lit("m"), Lit("e"), Rep(0, Inf, FALSE, <<AnyChar>>), Branch(<<<<Lit("f"), Lit("i"), Lit("l"), Lit("e"), Lit("s")>>, <<Lit("c"), Lit("o"), Lit("n"), Lit("t"), Lit("e"), Lit("n"), Lit("t"), Lit("s")>>>>)>>
  >>],
  [type |-> "list_detailed", patterns |-> <<
       \* (?:list|show).*?(?:detailed|details|long)
       <<Branch(<<<<Lit("l"), Lit("i"), Lit("s"), Lit("t")>>, <<Lit("s"), Lit("h"), Lit("o"), Lit("w")>>>>), Rep(0, Inf, FALSE, <<AnyChar>>), Branch(<<<<Lit("d"), Lit("e"), Lit("t"), Lit("a"), Lit("i"), Lit("l"), Lit("e"), Lit("d")>>, <<Lit("d"), Lit("e"), Lit("t"), Lit("a"), Lit("i"), Lit("l"), Lit("s")>>, <<Lit("l"), Lit("o"), Lit("n"), Lit("g")>>>>)>>,
       \* ls.*?-l
       <<Lit("l"), Lit("s"), Rep(0, Inf, FALSE, <<AnyChar>>), Lit("-"), Lit("l")>>,
       \* detailed.*?(?:list|listing)
       <<Lit("d"), Lit("e"), Lit("t"), Lit("a"), Lit("i"), Lit("l"), Lit("e"), Lit("d"), Rep(0, Inf, FALSE, <<AnyChar>>), Lit("l"), Lit("i"), Lit("s"), Lit("t"), Branch(<<<<>>, <<Lit("i"), Lit("n"), Lit("g")>>>>)>>
  >>],
  [type |-> "change_dir", patterns |-> <<
       \* (?:go|navigate|change).*?(?:to|into)\s+(["\']?)([^"\'\s]+)\1
       <<Branch(<<<<Lit("g"), Lit("o")>>, <<Lit("n"), Lit("a"), Lit("v"), Lit("i"), Lit("g"), Lit("a"), Lit("t"), Lit("e")>>, <<Lit("c"), Lit("h"), Lit("a"), Lit("n"), Lit("g"), Lit("e")>>>>), Rep(0, Inf, FALSE, <<AnyChar>>), Branch(<<<<Lit("t"), Lit("o")>>, <<Lit("i"), Lit("n"), Lit("t"), Lit("o")>>>>), Rep(1, Inf, TRUE, <<In(FALSE, {}, {"space"})>>), Sub(1, <<Rep(0, 1, TRUE, <<In(FALSE, {"\"", "'"}, {})>>)>>), Sub(2, <<Rep(1, Inf, TRUE, <<In(TRUE, {"\"", "'"}, {"space"})>>)>>), Ref(1)>>,
       \* cd\s+(["\']?)([^"\'\s]+)\1
       <<Lit("c"), Lit("d"), Rep(1, Inf, TRUE, <<In(FALSE, {}, {"space"})>>), Sub(1, <<Rep(0, 1, TRUE, <<In(FALSE, {"\"", "'"}, {})>>)>>), Sub(2, <<Rep(1, Inf, TRUE, <<In(TRUE, {"\"", "'"}, {"space"})>>)>>), Ref(1)>>,
       \* enter\s+(?:folder|directory)\s+(["\']?)([^"\'\s]+)\1
       <<Lit("e"), Lit("n"), Lit("t"), Lit("e"), Lit("r"), Rep(1, Inf, TRUE, <<In(FALSE, {}, {"space"})>>), Branch(<<<<Lit("f"), Lit("o"), Lit("l"), Lit("d"), Lit("e"), Lit("r")>>, <<Lit("d"), Lit("i"), Lit("r"), Lit("e"), Lit("c"), Lit("t"), Lit("o"), Lit("r"), Lit("y")>>>>), Rep(1, Inf, TRUE, <<In(FALSE, {}, {"space"})>>), Sub(1, <<Rep(0, 1, TRUE, <<In(FALSE, {"\"", "'"}, {})>>)>>), Sub(2, <<Rep(1, Inf, TRUE, <<In(TRUE, {"\"", "'"}, {"space"})>>)>>), Ref(1)>>
  >>],
  [type |-> "go_home", patterns |-> <<
       \* go\s+home
       <<Lit("g"), Lit("o"), Rep(1, Inf, TRUE, <<In(FALSE, {}, {"space"})>>), Lit("h"), Lit("o"), Lit("m"), Lit("e")>>,
       \* cd\s+~
       <<Lit("c"), Lit("d"), Rep(1, Inf, TRUE, <<In(FALSE, {}, {"space"})>>), Lit("~")>>,
       \* home\s+directory
       <<Lit("h"), Lit("o"), Lit("m"), Lit("e"), Rep(1, Inf, TRUE, <<In(FALSE, {}, {"space"})>>), Lit("d"), Lit("i"), Lit("r"), Lit("e"), Lit("c"), Lit("t"), Lit("o"), Lit("r"), Lit("y")>>
  >>],
  [type |-> "go_back", patterns |-> <<
       \* go\s+back
       <<Lit("g"), Lit("o"), Rep(1, Inf, TRUE, <<In(FALSE, {}, {"space"})>>), Lit("b"), Lit("a"), Lit("c"), Lit("k")>>,
       \* cd\s+\.\.
       <<Lit("c"), Lit("d"), Rep(1, Inf, TRUE, <<In(FALSE, {}, {"space"})>>), Lit("."), Lit(".")>>,
       \* parent\s+directory
       <<Lit("p"), Lit("a"), Lit("r"), Lit("e"), Lit("n"), Lit("t"), Rep(1, Inf, TRUE, <<In(FALSE, {}, {"space"})>>), Lit("d"), Lit("i"), Lit("r"), Lit("e"), Lit("c"), Lit("t"), Lit("o"), Lit("r"), Lit("y")>>,
       \* up\s+(?:one\s+)?(?:level|directory)
       <<Lit("u"), Lit("p"), Rep(1, Inf, TRUE, <<In(FALSE, {}, {"space"})>>), Rep(0, 1, TRUE, <<Lit("o"), Lit("n"), Lit("e"), Rep(1, Inf, TRUE, <<In(FALSE, {}, {"space"})>>)>>), Branch(<<<<Lit("l"), Lit("e"), Lit("v"), Lit("e"), Lit("l")>>, <<Lit("d"), Lit("i"), Lit("r"), Lit("e"), Lit("c"), Lit("t"), Lit("o"), Lit("r"), Lit("y")>>>>)>>
  >>],
  [type |-> "current_dir", patterns |-> <<
       \* where.*?am.*?i
       <<Lit("w"), Lit("h"), Lit("e"), Lit("r"), Lit("e"), Rep(0, Inf, FALSE, <<AnyChar>>), Lit("a"), Lit("m"), Rep(0, Inf, FALSE, <<AnyChar>>), Lit("i")>>,
       \* current.*?(?:directory|folder|location|path)
       <<Lit("c"), Lit("u"), Lit("r"), Lit("r"), Lit("e"), Lit("n"), Lit("t"), Rep(0, Inf, FALSE, <<AnyChar>>), Branch(<<<<Lit("d"), Lit("i"), Lit("r"), Lit("e"), Lit("c"), Lit("t"), Lit("o"), Lit("r"), Lit("y")>>, <<Lit("f"), Lit("o"), Lit("l"), Lit("d"), Lit("e"), Lit("r")>>, <<Lit("l"), Lit("o"), Lit("c"), Lit("a"), Lit("t"), Lit("i"), Lit("o"), Lit("n")>>, <<Lit("p"), Lit("a"), Lit("t"), Lit("h")>>>>)>>,
       \* pwd
       <<Lit("p"), Lit("w"), Lit("d")>>,
       \* print.*?working.*?directory
       <<Lit("p"), Lit("r"), Lit("i"), Lit("n"), Lit("t"), Rep(0, Inf, FALSE, <<AnyChar>>), Lit("w"), Lit("o"), Lit("r"), Lit("k"), Lit("i"), Lit("n"), Lit("g"), Rep(0, Inf, FALSE, <<AnyChar>>), Lit("d"), Lit("i"), Lit("r"), Lit("e"), Lit("c"), Lit("t"), Lit("o"), Lit("r"), Lit("y")>>
  >>],
  [type |-> "remove_file", patterns |-> <<
       \* (?:delete|remove).*?file\s+(["\']?)([^"\'\s]+)\1
       <<Branch(<<<<Lit("d"), Lit("e"), Lit("l"), Lit("e"), Lit("t"), Lit("e")>>, <<Lit("r"), Lit("e"), Lit("m"), Lit("o"), Lit("v"), Lit("e")>>>>), Rep(0, Inf, FALSE, <<AnyChar>>), Lit("f"), Lit("i"), Lit("l"), Lit("e"), Rep(1, Inf, TRUE, <<In(FALSE, {}, {"space"})>>), Sub(1, <<Rep(0, 1, TRUE, <<In(FALSE, {"\"", "'"}, {})>>)>>), Sub(2, <<Rep(1, Inf, TRUE, <<In(TRUE, {"\"", "'"}, {"space"})>>)>>), Ref(1)>>,
       \* rm\s+(["\']?)([^"\'\s]+)\1
       <<Lit("r"), Lit("m"), Rep(1, Inf, TRUE, <<In(FALSE, {}, {"space"})>>), Sub(1, <<Rep(0, 1, TRUE, <<In(FALSE, {"\"", "'"}, {})>>)>>), Sub(2, <<Rep(1, Inf, TRUE, <<In(TRUE, {"\"", "'"}, {"space"})>>)>>), Ref(1)>>
  >>],
  [type |-> "remove_dir", patterns |-> <<
       \* (?:delete|remove).*?(?:folder|directory)\s+(["\']?)([^"\'\s]+)\1
       <<Branch(<<<<Lit("d"), Lit("e"), Lit("l"), Lit("e"), Lit("t"), Lit("e")>>, <<Lit("r"), Lit("e"), Lit("m"), Lit("o"), Lit("v"), Lit("e")>>>>), Rep(0, Inf, FALSE, <<AnyChar>>), Branch(<<<<Lit("f"), Lit("o"), Lit("l"), Lit("d"), Lit("e"), Lit("r")>>, <<Lit("d"), Lit("i"), Lit("r"), Lit("e"), Lit("c"), Lit("t"), Lit("o"), Lit("r"), Lit("y")>>>>), Rep(1, Inf, TRUE, <<In(FALSE, {}, {"space"})>>), Sub(1, <<Rep(0, 1, TRUE, <<In(FALSE, {"\"", "'"}, {})>>)>>), Sub(2, <<Rep(1, Inf, TRUE, <<In(TRUE, {"\"", "'"}, {"space"})>>)>>), Ref(1)>>,
       \* rmdir\s+(["\']?)([^"\'\s]+)\1
       <<Lit("r"), Lit("m"), Lit("d"), Lit("i"), Lit("r"), Rep(1, Inf, TRUE, <<In(FALSE, {}, {"space"})>>), Sub(1, <<Rep(0, 1, TRUE, <<In(FALSE, {"\"", "'"}, {})>>)>>), Sub(2, <<Rep(1, Inf, TRUE, <<In(TRUE, {"\"", "'"}, {"space"})>>)>>), Ref(1)>>,
       \* rm\s+-r\s+(["\']?)([^"\'\s]+)\1
       <<Lit("r"), Lit("m"), Rep(1, Inf, TRUE, <<In(FALSE, {}, {"space"})>>), Lit("-"), Lit("r"), Rep(1, Inf, TRUE, <<In(FALSE, {}, {"space"})>>), Sub(1, <<Rep(0, 1, TRUE, <<In(FALSE, {"\"", "'"}, {})>>)>>), Sub(2, <<Rep(1, Inf, TRUE, <<In(TRUE, {"\"", "'"}, {"space"})>>)>>), Ref(1)>>
  >>],
  [type |-> "copy", patterns |-> <<
       \* copy\s+(["\']?)([^"\'\s]+)\1.*?(?:to|into)\s+(["\']?)([^"\'\s]+)\3
       <<Lit("c"), Lit("o"), Lit("p"), Lit("y"), Rep(1, Inf, TRUE, <<In(FALSE, {}, {"space"})>>), Sub(1, <<Rep(0, 1, TRUE, <<In(FALSE, {"\"", "'"}, {})>>)>>), Sub(2, <<Rep(1, Inf, TRUE, <<In(TRUE, {"\"", "'"}, {"space"})>>)>>), Ref(1), Rep(0, Inf, FALSE, <<AnyChar>>), Branch(<<<<Lit("t"), Lit("o")>>, <<Lit("i"), Lit("n"), Lit("t"), Lit("o")>>>>), Rep(1, Inf, TRUE, <<In(FALSE, {}, {"space"})>>), Sub(3, <<Rep(0, 1, TRUE, <<In(FALSE, {"\"", "'"}, {})>>)>>), Sub(4, <<Rep(1, Inf, TRUE, <<In(TRUE, {"\"", "'"}, {"space"})>>)>>), Ref(3)>>,
       \* cp\s+(["\']?)([^"\'\s]+)\1\s+(["\']?)([^"\'\s]+)\3
       <<Lit("c"), Lit("p"), Rep(1, Inf, TRUE, <<In(FALSE, {}, {"space"})>>), Sub(1, <<Rep(0, 1, TRUE, <<In(FALSE, {"\"", "'"}, {})>>)>>), Sub(2, <<Rep(1, Inf, TRUE, <<In(TRUE, {"\"", "'"}, {"space"})>>)>>), Ref(1), Rep(1, Inf, TRUE, <<In(FALSE, {}, {"space"})>>), Sub(3, <<Rep(0, 1, TRUE, <<In(FALSE, {"\"", "'"}, {})>>)>>), Sub(4, <<Rep(1, Inf, TRUE, <<In(TRUE, {"\"", "'"}, {"space"})>>)>>), Ref(3)>>
  >>],
  [type |-> "move", patterns |-> <<
       \* move\s+(["\']?)([^"\'\s]+)\1.*?(?:to|into)\s+(["\']?)([^"\'\s]+)\3
       <<Lit("m"), Lit("o"), Lit("v"), Lit("e"), Rep(1, Inf, TRUE, <<In(FALSE, {}, {"space"})>>), Sub(1, <<Rep(0, 1, TRUE, <<In(FALSE, {"\"", "'"}, {})>>)>>), Sub(2, <<Rep(1, Inf, TRUE, <<In(TRUE, {"\"", "'"}, {"space"})>>)>>), Ref(1), Rep(0, Inf, FALSE, <<AnyChar>>), Branch(<<<<Lit("t"), Lit("o")>>, <<Lit("i"), Lit("n"), Lit("t"), Lit("o")>>>>), Rep(1, Inf, TRUE, <<In(FALSE, {}, {"space"})>>), Sub(3, <<Rep(0, 1, TRUE, <<In(FALSE, {"\"", "'"}, {})>>)>>), Sub(4, <<Rep(1, Inf, TRUE, <<In(TRUE, {"\"", "'"}, {"space"})>>)>>), Ref(3)>>,
       \* mv\s+(["\']?)([^"\'\s]+)\1\s+(["\']?)([^"\'\s]+)\3
       <<Lit("m"), Lit("v"), Rep(1, Inf, TRUE, <<In(FALSE, {}, {"space"})>>), Sub(1, <<Rep(0, 1, TRUE, <<In(FALSE, {"\"", "'"}, {})>>)>>), Sub(2, <<Rep(1, Inf, TRUE, <<In(TRUE, {"\"", "'"}, {"space"})>>)>>), Ref(1), Rep(1, Inf, TRUE, <<In(FALSE, {}, {"space"})>>), Sub(3, <<Rep(0, 1, TRUE, <<In(FALSE, {"\"", "'"}, {})>>)>>), Sub(4, <<Rep(1, Inf, TRUE, <<In(TRUE, {"\"", "'"}, {"space"})>>)>>), Ref(3)>>,
       \* rename\s+(["\']?)([^"\'\s]+)\1.*?(?:to)\s+(["\']?)([^"\'\s]+)\3
       <<Lit("r"), Lit("e"), Lit("n"), Lit("a"), Lit("m"), Lit("e"), Rep(1, Inf, TRUE, <<In(FALSE, {}, {"space"})>>), Sub(1, <<Rep(0, 1, TRUE, <<In(FALSE, {"\"", "'"}, {})>>)>>), Sub(2, <<Rep(1, Inf, TRUE, <<In(TRUE, {"\"", "'"}, {"space"})>>)>>), Ref(1), Rep(0, Inf, FALSE, <<AnyChar>>), Lit("t"), Lit("o"), Rep(1, Inf, TRUE, <<In(FALSE, {}, {"space"})>>), Sub(3, <<Rep(0, 1, TRUE, <<In(FALSE, {"\"", "'"}, {})>>)>>), Sub(4, <<Rep(1, Inf, TRUE, <<In(TRUE, {"\"", "'"}, {"space"})>>)>>), Ref(3)>>
  >>],
  [type |-> "show_file", patterns |-> <<
       \* (?:show|display|cat|read).*?file\s+(["\']?)([^"\'\s]+)\1
       <<Branch(<<<<Lit("s"), Lit("h"), Lit("o"), Lit("w")>>, <<Lit("d"), Lit("i"), Lit("s"), Lit("p"), Lit("l"), Lit("a"), Lit("y")>>, <<Lit("c"), Lit("a"), Lit("t")>>, <<Lit("r"), Lit("e"), Lit("a"), Lit("d")>>>>), Rep(0, Inf, FALSE, <<AnyChar>>), Lit("f"), Lit("i"), Lit("l"), Lit("e"), Rep(1, Inf, TRUE, <<In(FALSE, {}, {"space"})>>), Sub(1, <<Rep(0, 1, TRUE, <<In(FALSE, {"\"", "'"}, {})>>)>>), Sub(2, <<Rep(1, Inf, TRUE, <<In(TRUE, {"\"", "'"}, {"space"})>>)>>), Ref(1)>>,
       \* cat\s+(["\']?)([^"\'\s]+)\1
       <<Lit("c"), Lit("a"), Lit("t"), Rep(1, Inf, TRUE, <<In(FALSE, {}, {"space"})>>), Sub(1, <<Rep(0, 1, TRUE, <<In(FALSE, {"\"", "'"}, {})>>)>>), Sub(2, <<Rep(1, Inf, TRUE, <<In(TRUE, {"\"", "'"}, {"space"})>>)>>), Ref(1)>>,
       \* what\'?s\s+in\s+(["\']?)([^"\'\s]+)\1
       <<Lit("w"), Lit("h"), Lit("a"), Lit("t"), Rep(0, 1, TRUE, <<Lit("'")>>), Lit("s"), Rep(1, Inf, TRUE, <<In(FALSE, {}, {"space"})>>), Lit("i"), Lit("n"), Rep(1, Inf, TRUE, <<In(FALSE, {}, {"space"})>>), Sub(1, <<Rep(0, 1, TRUE, <<In(FALSE, {"\"", "'"}, {})>>)>>), Sub(2, <<Rep(1, Inf, TRUE, <<In(TRUE, {"\"", "'"}, {"space"})>>)>>), Ref(1)>>
  >>],
  [type |-> "find_file", patterns |-> <<
       \* find.*?file.*?(?:called|named)\s+(["\']?)([^"\'\s]+)\1
       <<Lit("f"), Lit("i"), Lit("n"), Lit("d"), Rep(0, Inf, FALSE, <<AnyChar>>), Lit("f"), Lit("i"), Lit("l"), Lit("e"), Rep(0, Inf, FALSE, <<AnyChar>>), Branch(<<<<Lit("c"), Lit("a"), Lit("l"), Lit("l"), Lit("e"), Lit("d")>>, <<Lit("n"), Lit("a"), Lit("m"), Lit("e"), Lit("d")>>>>), Rep(1, Inf, TRUE, <<In(FALSE, {}, {"space"})>>), Sub(1, <<Rep(0, 1, TRUE, <<In(FALSE, {"\"", "'"}, {})>>)>>), Sub(2, <<Rep(1, Inf, TRUE, <<In(TRUE, {"\"", "'"}, {"space"})>>)>>), Ref(1)>>,
       \* search.*?for.*?(["\']?)([^"\'\s]+)\1
       <<Lit("s"), Lit("e"), Lit("a"), Lit("r"), Lit("c"), Lit("h"), Rep(0, Inf, FALSE, <<AnyChar>>), Lit("f"), Lit("o"), Lit("r"), Rep(0, Inf, FALSE, <<AnyChar>>), Sub(1, <<Rep(0, 1, TRUE, <<In(FALSE, {"\"", "'"}, {})>>)>>), Sub(2, <<Rep(1, Inf, TRUE, <<In(TRUE, {"\"", "'"}, {"space"})>>)>>), Ref(1)>>,
       \* locate.*?(["\']?)([^"\'\s]+)\1
       <<Lit("l"), Lit("o"), Lit("c"), Lit("a"), Lit("t"), Lit("e"), Rep(0, Inf, FALSE, <<AnyChar>>), Sub(1, <<Rep(0, 1, TRUE, <<In(FALSE, {"\"", "'"}, {})>>)>>), Sub(2, <<Rep(1, Inf, TRUE, <<In(TRUE, {"\"", "'"}, {"space"})>>)>>), Ref(1)>>
  >>],
  [type |-> "system_info", patterns |-> <<
       \* (?:show|display).*?system.*?(?:info|information)
       <<Branch(<<<<Lit("s"), Lit("h"), Lit("o"), Lit("w")>>, <<Lit("d"), Lit("i"), Lit("s"), Lit("p"), Lit("l"), Lit("a"), Lit("y")>>>>), Rep(0, Inf, FALSE, <<AnyChar>>), Lit("s"), Lit("y"), Lit("s"), Lit("t"), Lit("e"), Lit("m"), Rep(0, Inf, FALSE, <<AnyChar>>), Lit("i"), Lit("n"), Lit("f"), Lit("o"), Branch(<<<<>>, <<Lit("r"), Lit("m"), Lit("a"), Lit("t"), Lit("i"), Lit("o"), Lit("n")>>>>)>>,
       \* sysinfo
       <<Lit("s"), Lit("y"), Lit("s"), Lit("i"), Lit("n"), Lit("f"), Lit("o")>>,
       \* system\s+details
       <<Lit("s"), Lit("y"), Lit("s"), Lit("t"), Lit("e"), Lit("m"), Rep(1, Inf, TRUE, <<In(FALSE, {}, {"space"})>>), Lit("d"), Lit("e"), Lit("t"), Lit("a"), Lit("i"), Lit("l"), Lit("s")>>,
       \* computer\s+info
       <<Lit("c"), Lit("o"), Lit("m"), Lit("p"), Lit("u"), Lit("t"), Lit("e"), Lit("r"), Rep(1, Inf, TRUE, <<In(FALSE, {}, {"space"})>>), Lit("i"), Lit("n"), Lit("f"), Lit("o")>>
  >>],
  [type |-> "processes", patterns |-> <<
       \* (?:show|list).*?(?:processes|running\s+programs)
       <<Branch(<<<<Lit("s"), Lit("h"), Lit("o"), Lit("w")>>, <<Lit("l"), Lit("i"), Lit("s"), Lit("t")>>>>), Rep(0, Inf, FALSE, <<AnyChar>>), Branch(<<<<Lit("p"), Lit("r"), Lit("o"), Lit("c"), Lit("e"), Lit("s"), Lit("s"), Lit("e"), Lit("s")>>, <<Lit("r"), Lit("u"), Lit("n"), Lit("n"), Lit("i"), Lit("n"), Lit("g"), Rep(1, Inf, TRUE, <<In(FALSE, {}, {"space"})>>), Lit("p"), Lit("r"), Lit("o"), Lit("g"), Lit("r"), Lit("a"), Lit("m"), Lit("s")>>>>)>>,
       \* ps
       <<Lit("p"), Lit("s")>>,
       \* what.*?running
       <<Lit("w"), Lit("h"), Lit("a"), Lit("t"), Rep(0, Inf, FALSE, <<AnyChar>>), Lit("r"), Lit("u"), Lit("n"), Lit("n"), Lit("i"), Lit("n"), Lit("g")>>,
       \* active\s+processes
       <<Lit("a"), Lit("c"), Lit("t"), Lit("i"), Lit("v"), Lit("e"), Rep(1, Inf, TRUE, <<In(FALSE, {}, {"space"})>>), Lit("p"), Lit("r"), Lit("o"), Lit("c"), Lit("e"), Lit("s"), Lit("s"), Lit("e"), Lit("s")>>
  >>],
  [type |-> "memory", patterns |-> <<
       \* (?:show|check).*?memory.*?usage
       <<Branch(<<<<Lit("s"), Lit("h"), Lit("o"), Lit("w")>>, <<Lit("c"), Lit("h"), Lit("e"), Lit("c"), Lit("k")>>>>), Rep(0, Inf, FALSE, <<AnyChar>>), Lit("m"), Lit("e"), Lit("m"), Lit("o"), Lit("r"), Lit("y"), Rep(0, Inf, FALSE, <<AnyChar>>), Lit("u"), Lit("s"), Lit("a"), Lit("g"), Lit("e")>>,
       \* free\s+memory
       <<Lit("f"), Lit("r"), Lit("e"), Lit("e"), Rep(1, Inf, TRUE, <<In(FALSE, {}, {"space"})>>), Lit("m"), Lit("e"), Lit("m"), Lit("o"), Lit("r"), Lit("y")>>,
       \* ram\s+usage
       <<Lit("r"), Lit("a"), Lit("m"), Rep(1, Inf, TRUE, <<In(FALSE, {}, {"space"})>>), Lit("u"), Lit("s"), Lit("a"), Lit("g"), Lit("e")>>,
       \* memory\s+info
       <<Lit("m"), Lit("e"), Lit("m"), Lit("o"), Lit("r"), Lit("y"), Rep(1, Inf, TRUE, <<In(FALSE, {}, {"space"})>>), Lit("i"), Lit("n"), Lit("f"), Lit("o")>>
  >>],
  [type |-> "disk_space", patterns |-> <<
       \* (?:show|check).*?disk.*?(?:space|usage)
       <<Branch(<<<<Lit("s"), Lit("h"), Lit("o"), Lit("w")>>, <<Lit("c"), Lit("h"), Lit("e"), Lit("c"), Lit("k")>>>>), Rep(0, Inf, FALSE, <<AnyChar>>), Lit("d"), Lit("i"), Lit("s"), Lit("k"), Rep(0, Inf, FALSE, <<AnyChar>>), Branch(<<<<Lit("s"), Lit("p"), Lit("a"), Lit("c"), Lit("e")>>, <<Lit("u"), Lit("s"), Lit("a"), Lit("g"), Lit("e")>>>>)>>,
       \* df
       <<Lit("d"), Lit("f")>>,
       \* storage\s+info
       <<Lit("s"), Lit("t"), Lit("o"), Lit("r"), Lit("a"), Lit("g"), Lit("e"), Rep(1, Inf, TRUE, <<In(FALSE, {}, {"space"})>>), Lit("i"), Lit("n"), Lit("f"), Lit("o")>>,
       \* free\s+space
       <<Lit("f"), Lit("r"), Lit("e"), Lit("e"), Rep(1, Inf, TRUE, <<In(FALSE, {}, {"space"})>>), Lit("s"), Lit("p"), Lit("a"), Lit("c"), Lit("e")>>
  >>],
  [type |-> "clear_screen", patterns |-> <<
       \* clear.*?(?:screen|terminal)
       <<Lit("c"), Lit("l"), Lit("e"), Lit("a"), Lit("r"), Rep(0, Inf, FALSE, <<AnyChar>>), Branch(<<<<Lit("s"), Lit("c"), Lit("r"), Lit("e"), Lit("e"), Lit("n")>>, <<Lit("t"), Lit("e"), Lit("r"), Lit("m"), Lit("i"), Lit("n"), Lit("a"), Lit("l")>>>>)>>,
       \* cls
       <<Lit("c"), Lit("l"), Lit("s")>>,
       \* clean.*?screen
       <<Lit("c"), Lit("l"), Lit("e"), Lit("a"), Lit("n"), Rep(0, Inf, FALSE, <<AnyChar>>), Lit("s"), Lit("c"), Lit("r"), Lit("e"), Lit("e"), Lit("n")>>
  >>],
  [type |-> "help", patterns |-> <<
       \* help
       <<Lit("h"), Lit("e"), Lit("l"), Lit("p")>>,
       \* what.*?can.*?do
       <<Lit("w"), Lit("h"), Lit("a"), Lit("t"), Rep(0, Inf, FALSE, <<AnyChar>>), Lit("c"), Lit("a"), Lit("n"), Rep(0, Inf, FALSE, <<AnyChar>>), Lit("d"), Lit("o")>>,
       \* available.*?commands
       <<Lit("a"), Lit("v"), Lit("a"), Lit("i"), Lit("l"), Lit("a"), Lit("b"), Lit("l"), Lit("e"), Rep(0, Inf, FALSE, <<AnyChar>>), Lit("c"), Lit("o"), Lit("m"), Lit("m"), Lit("a"), Lit("n"), Lit("d"), Lit("s")>>,
       \* show.*?commands
       <<Lit("s"), Lit("h"), Lit("o"), Lit("w"), Rep(0, Inf, FALSE, <<AnyChar>>), Lit("c"), Lit("o"), Lit("m"), Lit("m"), Lit("a"), Lit("n"), Lit("d"), Lit("s")>>
  >>]
>>

\* self.shortcuts
shortcuts ==
  << <<Chars("desktop"), Chars("Desktop")>>, <<Chars("documents"), Chars("Documents")>>,
     <<Chars("downloads"), Chars("Downloads")>>, <<Chars("home"), Chars("~")>>,
     <<Chars("root"), Chars("/")>>, <<Chars("temp"), Chars("/tmp")>>,
     <<Chars("temporary"), Chars("/tmp")>> >>

\* AICommandInterpreter.normalize_path
shortcut_path(path) ==
  IF lower(path) \in dict_keys(shortcuts) THEN dict_get(shortcuts, lower(path)) ELSE path

Command(cmd, args) == [cmd |-> cmd, args |-> args]

\* a list object where a string is expected: the tuple ('rm', []) that the
\* conditional expressions of lines 220, 228 and 254 yield as the arguments
PyList == <<"list">>

\* groups[1] or groups[0]
group_or(groups, a, b) == IF groups[a] # <<>> THEN groups[a] ELSE groups[b]

\* _process_match: every pattern of a category that reads groups has them
process_match(command_type, groups) ==
  CASE command_type = "create_dir"    -> Command(Chars("mkdir"), <<shortcut_path(group_or(groups, 2, 1))>>)
    [] command_type = "create_file"   -> Command(Chars("touch"), <<group_or(groups, 2, 1)>>)
    [] command_type = "list"          -> Command(Chars("ls"), <<>>)
    [] command_type = "list_detailed" -> Command(Chars("ls"), <<Chars("-l")>>)
    [] command_type = "change_dir"    -> Command(Chars("cd"), <<shortcut_path(group_or(groups, 2, 1))>>)
    [] command_type = "go_home"       -> Command(Chars("cd"), <<Chars("~")>>)
    [] command_type = "go_back"       -> Command(Chars("cd"), <<Chars("..")>>)
    [] command_type = "current_dir"   -> Command(Chars("pwd"), <<>>)
    [] command_type = "remove_file"   ->
         IF group_or(groups, 2, 1) # <<>>
         THEN Command(Chars("rm"), <<group_or(groups, 2, 1)>>)
         ELSE Command(Chars("rm"), <<Chars("rm"), PyList>>)
    [] command_type = "remove_dir"    ->
         IF group_or(groups, 2, 1) # <<>>
         THEN Command(Chars("rm"), <<Chars("-r"), group_or(groups, 2, 1)>>)
         ELSE Command(Chars("rm"), <<Chars("rm"), PyList>>)
    [] command_type = "copy"          ->
         Command(Chars("cp"), <<group_or(groups, 2, 1), group_or(groups, 4, 3)>>)
    [] command_type = "move"          ->
         Command(Chars("mv"), <<group_or(groups, 2, 1), group_or(groups, 4, 3)>>)
    [] command_type = "show_file"     ->
         IF group_or(groups, 2, 1) # <<>>
         THEN Command(Chars("cat"), <<group_or(groups, 2, 1)>>)
         ELSE Command(Chars("cat"), <<Chars("cat"), PyList>>)
    [] command_type = "find_file"     -> Command(Chars("find"), <<group_or(groups, 2, 1)>>)
    [] command_type = "system_info"   -> Command(Chars("sysinfo"), <<>>)
    [] command_type = "processes"     -> Command(Chars("ps"), <<>>)
    [] command_type = "memory"        -> Command(Chars("free"), <<>>)
    [] command_type = "disk_space"    -> Command(Chars("df"), <<>>)
    [] command_type = "clear_screen"  -> Command(Chars("clear"), <<>>)
    [] command_type = "help"          -> Command(Chars("help"), <<>>)

\* str.split(): the words between runs of whitespace
RECURSIVE words_of(_, _, _)
words_of(s, word, out) ==
  IF s = <<>> THEN (IF word # <<>> THEN Append(out, word) ELSE out)
  ELSE IF Head(s) \in Whitespace
       THEN words_of(Tail(s), <<>>, IF word # <<>> THEN Append(out, word) ELSE out)
       ELSE words_of(Tail(s), Append(word, Head(s)), out)

\* the patterns in the order the loops of lines 150-151 try them, each with
\* the category it belongs to
RECURSIVE pattern_list(_)
pattern_list(categories) ==
  IF categories = <<>> THEN <<>>
  ELSE [p \in 1..Len(Head(categories).patterns) |->
          [type |-> Head(categories).type, pattern |-> Head(categories).patterns[p]]]
       \o pattern_list(Tail(categories))

\* a match and the category of the pattern that made it
typed(match, type) ==
  [ok |-> match.ok, end |-> match.end, groups |-> match.groups, type |-> type]

\* re.search for each pattern of the list, by its place in the list
searches(list, query) ==
  {<<k, typed(re_search(list[k].pattern, query), list[k].type)>> : k \in 1..Len(list)}

\* lines 153-157: the commands list for the match found first, <<>> when there is none
matched_commands(match) ==
  IF match.ok THEN <<process_match(match.type, match.groups)>> ELSE <<>>

\* the loops of interpret with the last pattern that matches in place of the first
last_match(query) ==
  matched_commands(first_try(searches(pattern_list(command_patterns), query), TRUE))

\* the loops of interpret over the categories and their patterns: the commands
\* list it returns at the first pattern that matches, <<>> when none does
first_match(query) ==
  matched_commands(first_try(searches(pattern_list(command_patterns), query), FALSE))

\* the first word outside the list, as the loops at lines 164-173 pick it
first_word_not_in(words, excluded) ==
  LET rest == SelectSeq(words, LAMBDA w : w \notin excluded) IN
  IF rest = <<>> THEN <<>> ELSE <<rest[1]>>

\* the command for the first word left, none when no word is left
\* the fallback with ai as the command name
command_for_ai(cmd, w) == IF w = <<>> THEN <<>> ELSE <<Command(Chars("ai"), w)>>

command_for(cmd, w) == IF w = <<>> THEN <<>> ELSE <<Command(cmd, w)>>

\* lines 160-175: the fallback on the words of the lowered query
keywords(words) ==
  LET has(w)  == \E i \in 1..Len(words) : words[i] = Chars(w)
      common  == {Chars(w) : w \in {"create", "make", "a", "called", "named"}}
  IN  IF has("create") \/ has("make")
      THEN IF has("folder") \/ has("directory")
           THEN command_for(Chars("mkdir"),
                  first_word_not_in(words, common \cup {Chars("folder"), Chars("directory")}))
           ELSE IF has("file")
           THEN command_for(Chars("touch"), first_word_not_in(words, common \cup {Chars("file")}))
           ELSE <<>>
      ELSE <<>>

\* interpret without the return of line 157: the fallback runs after a match
commands_and(matched, fallback) == matched \o fallback

\* what interpret returns: the commands of the first match, else the fallback's
commands_or(matched, fallback) == IF matched # <<>> THEN matched ELSE fallback

\* lines 144-175, for the stripped query
interpret_query(query) ==
  IF query = <<>> THEN <<>>
  ELSE commands_or(first_match(query), keywords(words_of(lower(query), <<>>, <<>>)))

interpret(raw_query) == interpret_query(str_strip(raw_query))

-----------------------------------------------------------------------------
\* Terminal

\* the table without the entries cd and pwd
commands_without_cd ==
  {Chars(c) : c \in {"ls", "mkdir", "rm", "rmdir", "touch", "cat", "cp", "mv",
                     "find", "grep", "ps", "top", "kill", "sysinfo", "df", "free", "uptime",
                     "whoami", "date", "env", "ai", "echo", "clear", "cls", "help", "history",
                     "exit", "quit"}}

\* the keys of self.commands
commands ==
  {Chars(c) : c \in {"ls", "cd", "pwd", "mkdir", "rm", "rmdir", "touch", "cat", "cp", "mv",
                     "find", "grep", "ps", "top", "kill", "sysinfo", "df", "free", "uptime",
                     "whoami", "date", "env", "ai", "echo", "clear", "cls", "help", "history",
                     "exit", "quit"}}

file_commands ==
  {Chars(c) : c \in {"ls", "cd", "pwd", "mkdir", "rm", "rmdir", "touch", "cat", "cp", "mv",
                     "find", "grep"}}

system_commands ==
  {Chars(c) : c \in {"ps", "top", "kill", "sysinfo", "df", "free", "uptime", "whoami", "date",
                     "env"}}

\* The state a call of execute works on: the simulated filesystem, the history,
\* the running flag, and host, the invocations of the host shell made so far in
\* the call.  ok is FALSE when the handler raised.
Done(st, out) == [st |-> st, out |-> out, ok |-> TRUE]

Raised(st, error) == [st |-> st, out |-> <<>>, ok |-> FALSE, error |-> error]

\* the session after a handler of FileOperations left r
handled(st, r) == Done([st EXCEPT !.heap = r.heap, !.current_path = r.current_path], r.out)

\* the commands of FileOperations on the simulated filesystem; the text that
\* find and grep return is kept as one piece that names the call
file_operation(st, cmd, args, t) ==
  handled(st,
    CASE cmd = Chars("ls")    -> cmd_ls(st.heap, st.current_path, args)
      [] cmd = Chars("cd")    -> cmd_cd(st.heap, st.current_path, args)
      [] cmd = Chars("pwd")   -> cmd_pwd(st.heap, st.current_path, args)
      [] cmd = Chars("mkdir") -> cmd_mkdir(st.heap, st.current_path, args, t)
      [] cmd = Chars("rm")    -> cmd_rm(st.heap, st.current_path, args)
      [] cmd = Chars("rmdir") -> cmd_rmdir(st.heap, st.current_path, args)
      [] cmd = Chars("touch") -> cmd_touch(st.heap, st.current_path, args, t)
      [] cmd = Chars("cat")   -> cmd_cat(st.heap, st.current_path, args)
      [] cmd = Chars("cp")    -> cmd_cp(st.heap, st.current_path, args, t)
      [] cmd = Chars("mv")    -> cmd_mv(st.heap, st.current_path, args, t)
      [] OTHER                ->
           Res(st.heap, st.current_path, <<[kind |-> "search", cmd |-> cmd, args |-> args]>>))

\* with use_virtual false the same commands act on the host's files through os
\* and shutil, and the commands of SystemCommands read the host through psutil:
\* neither starts a shell, and what they return is the host's to decide.  The
\* handlers catch what the host raises, cmd_pwd apart: os.getcwd() at line 135
\* of file_operations.py is called outside any try, and raises OSError when the
\* host's working directory is gone.  cmd_ls turns the FileNotFoundError of
\* os.listdir into a text (lines 101-102).
host_operation(st, cmd, args, outcome) ==
  IF cmd = Chars("pwd") /\ outcome \in {"Exception", "FileNotFoundError"}
  THEN Raised(st, "OSError")
  ELSE IF cmd = Chars("ls") /\ outcome = "FileNotFoundError"
  THEN Done(st, <<Msg("RED", "Directory not found: ",
                      IF args # <<>> THEN args[1] ELSE Chars("."))>>)
  ELSE Done(st, <<[kind |-> "host", cmd |-> cmd, args |-> args]>>)

_cmd_echo(st, args) == Done(st, <<Str(str_join(Chars(" "), args))>>)

_cmd_clear(st, args) ==
  Done([st EXCEPT !.host = Append(@, [api |-> "os.system", command |-> Chars("clear")])], <<>>)

_cmd_help(st, args) == Done(st, <<Msg("CYAN", "Available Commands:", <<>>)>>)

_cmd_history(st, args) ==
  LET n         == Len(st.command_history)
      start_idx == IF n - 20 > 0 THEN n - 20 ELSE 0
  IN  IF n = 0 THEN Done(st, <<Str(Chars("No command history"))>>)
      ELSE Done(st, [i \in 1..(n - start_idx) |->
                       [kind |-> "history", number |-> start_idx + i,
                        cmd |-> st.command_history[start_idx + i]]])

_cmd_exit(st, args) == Done([st EXCEPT !.running = FALSE], <<Msg("GREEN", "Goodbye!", <<>>)>>)

\* The lines a client types at the prompt of a sandboxed session.
Lines ==
  {Chars(l) : l \in
     {"cd /tmp", "cd ..", "cd", "cd documents", "mkdir new", "mkdir /", "touch new",
      "rm new", "rm -r /home/user", "rm -r .", "rm -r /", "rmdir /tmp", "rmdir .",
      "mv /home/user /tmp/new", "mv /tmp /tmp", "mv documents /tmp",
      "cp documents /tmp/new", "cp /etc/hosts new",
      "ai", "ai hello", "ai go back", "ai go to downloads", "ai create folder temp",
      "ai delete folder documents", "ai clear the screen",
      "clear", "cls", "nosuchcmd", "\"\"", "", "   ", "echo \"a", "echo hi", "history",
      "exit", "pwd", " pwd ", "ls", "cat /etc/hosts", "whoami", "rm documents"}}

\* The lines typed into a real-mode session.
RealLines ==
  {Chars(l) : l \in {"nosuchcmd", "\"\"", "", "   ", "echo \"a", "clear", "ai clear the screen",
                     "echo hi", "ls", "exit", "pwd", " pwd ", "ai where am i", "ls /nosuch"}}

\* The lines typed into a sandboxed session by a client that works on files.
FileLines ==
  {Chars(l) : l \in
     {"ls", "ls /tmp", "ls /nosuch", "ls /etc/hosts", "ls -l", "ls -l /nosuch", "ls -l /tmp",
      "ls -l .", "ls . -l", "ls -a", "cd /tmp", "cd documents",
      "touch documents", "touch new", "touch /etc/hosts", "touch /nodir/new",
      "touch documents/readme.txt", "mkdir -p", "mkdir new", "mkdir documents",
      "mkdir a b", "mkdir -p x y", "mkdir documents b",
      "cp /nosuch new", "cp documents new", "cp -r documents", "cp documents",
      "cp documents -r new", "cp /etc/hosts new", "cp --recursive new /tmp",
      "ai make folder new", "ai make folder bob's", "ai go back", "ai delete folder documents",
      "ai create   folder \"new\"", "ai hello", "ai show files", "ai ai go back",
      "ai folder create x"}}

\* the lines of a session of the mode
Typed(m) == IF m = "real" THEN RealLines ELSE IF m = "files" THEN FileLines ELSE Lines

\* interpret is a function of the query alone: its values on the queries that
\* the lines above hand to cmd_ai, computed once
Interpreted ==
  {<<query, interpret(query)>> :
     query \in {str_join(Chars(" "), parse(l).args) :
                  l \in {x \in Lines \cup RealLines \cup FileLines :
                           parse(x).ok /\ parse(x).cmd = Chars("ai")}}
               \cup {SubSeq(l, 4, Len(l)) :
                       l \in {x \in FileLines : startswith(x, Chars("ai "))}}}

\* the value computed once for the query, else the value computed now
looked_up(entries, computed) ==
  IF entries # {} THEN (CHOOSE e \in entries : TRUE)[2] ELSE computed

interpreter_interpret(query) ==
  looked_up({e \in Interpreted : e[1] = query}, interpret(query))

RECURSIVE execute(_, _, _, _, _)

\* the loop of cmd_ai over the interpreted commands
RECURSIVE run_commands(_, _, _, _, _, _)
\* the loop of cmd_ai with the command's name as the line executed
RECURSIVE run_commands_bare(_, _, _, _, _, _)
run_commands_bare(st, cmds, outputs, t, use_virtual, outcome) ==
  IF cmds = <<>> THEN Done(st, outputs)
  ELSE LET cmd_str == Head(cmds).cmd
           r       == execute(st, cmd_str, t, use_virtual, outcome)
           shown   == Append(outputs, Msg("GREEN", "Executing: ", cmd_str))
       IN  run_commands_bare(r.st, Tail(cmds),
                             IF r.out # <<>> THEN Append(shown, [kind |-> "indented", out |-> r.out])
                             ELSE shown,
                             t, use_virtual, outcome)

run_commands(st, cmds, outputs, t, use_virtual, outcome) ==
  IF cmds = <<>> THEN Done(st, outputs)
  ELSE LET cmd      == Head(cmds).cmd
           cmd_args == Head(cmds).args
           cmd_str  == IF cmd_args # <<>> THEN cmd \o Chars(" ") \o str_join(Chars(" "), cmd_args)
                       ELSE cmd
           r        == execute(st, cmd_str, t, use_virtual, outcome)
           shown    == Append(outputs, Msg("GREEN", "Executing: ", cmd_str))
       IN  IF \E i \in 1..Len(cmd_args) : cmd_args[i] = PyList
           THEN Raised(st, "sequence item 1: expected str instance, list found")
           ELSE run_commands(r.st, Tail(cmds),
                             IF r.out # <<>> THEN Append(shown, [kind |-> "indented", out |-> r.out])
                             ELSE shown,
                             t, use_virtual, outcome)

cmd_ai(st, args, t, use_virtual, outcome) ==
  LET query == str_join(Chars(" "), args)
      run(cmds) ==
        IF cmds # <<>>
        THEN run_commands(st, cmds, <<Msg("CYAN", "AI: Interpreting: ", query)>>,
                          t, use_virtual, outcome)
        ELSE Done(st, <<Msg("YELLOW", "AI: I couldn't understand that command.", query)>>)
  IN  IF args = <<>> THEN Done(st, <<Msg("CYAN", "AI Assistant - Natural Language Commands", <<>>)>>)
      ELSE run(interpreter_interpret(query))

\* self.commands[cmd](args)
dispatch(st, cmd, args, t, use_virtual, outcome) ==
  IF cmd = Chars("ai") THEN cmd_ai(st, args, t, use_virtual, outcome)
  ELSE IF cmd = Chars("echo") THEN _cmd_echo(st, args)
  ELSE IF cmd \in {Chars("clear"), Chars("cls")} THEN _cmd_clear(st, args)
  ELSE IF cmd = Chars("help") THEN _cmd_help(st, args)
  ELSE IF cmd = Chars("history") THEN _cmd_history(st, args)
  ELSE IF cmd \in {Chars("exit"), Chars("quit")} THEN _cmd_exit(st, args)
  ELSE IF cmd \in file_commands /\ use_virtual THEN file_operation(st, cmd, args, t)
  ELSE host_operation(st, cmd, args, outcome)

\* what a call into the host can come to: subprocess.run(command_line,
\* shell=True, ...) at line 197, os.getcwd() in cmd_pwd, os.listdir in cmd_ls
HostOutcomes ==
  {"returncode 0", "returncode not 0", "TimeoutExpired", "Exception", "FileNotFoundError"}

\* the else branch without the test of use_virtual
unregistered_any_mode(st, command_line, cmd, use_virtual, outcome) ==
  [st  |-> [st EXCEPT !.host = Append(@, [api |-> "subprocess.run", command |-> command_line])],
   out |-> <<[kind |-> "subprocess", outcome |-> outcome]>>]

\* the else branch of execute, for a command name that is not a key of
\* self.commands: the host shell when the session is not sandboxed
unregistered(st, command_line, cmd, use_virtual, outcome) ==
  IF ~use_virtual
  THEN [st  |-> [st EXCEPT !.host = Append(@, [api |-> "subprocess.run", command |-> command_line])],
        out |-> <<[kind |-> "subprocess", outcome |-> outcome]>>]
  ELSE [st |-> st, out |-> <<Msg("RED", "Command not found: ", cmd)>>]

\* line 183 with the stripped line in place of the raw one
recorded_stripped(st, command_line) ==
  [st EXCEPT !.command_history = Append(@, str_strip(command_line))]

\* line 183: self.command_history.append(command_line)
recorded(st, command_line) == [st EXCEPT !.command_history = Append(@, command_line)]

\* lines 187-191 without the except clause: what the handler raised leaves execute
uncaught(cmd, r) ==
  IF r.ok THEN [st |-> r.st, out |-> IF truthy(r.out) THEN r.out ELSE <<>>]
  ELSE [st |-> r.st, out |-> <<[kind |-> "exception", error |-> r.error]>>]

\* lines 187-191: the handler returned r, or raised and the except clause
\* turned the exception into a text
caught(cmd, r) ==
  IF r.ok THEN [st |-> r.st, out |-> IF truthy(r.out) THEN r.out ELSE <<>>]
  ELSE [st |-> r.st, out |-> <<Msg("RED", "Error executing ", <<cmd, r.error>>)>>]

\* lines 176-208 with the append of line 183 made before the parse
execute_parsed_recording(st, command_line, p, t, use_virtual, outcome) ==
  IF ~p.ok
  THEN [st  |-> recorded(st, command_line),
        out |-> <<Msg("RED", "Parse error: Invalid command syntax: ", p.error)>>]
  ELSE IF p.cmd \in commands
  THEN caught(p.cmd, dispatch(recorded(st, command_line), p.cmd, p.args, t, use_virtual, outcome))
  ELSE unregistered(recorded(st, command_line), command_line, p.cmd, use_virtual, outcome)

\* lines 176-208 of execute, for what parse returned or raised
execute_parsed(st, command_line, p, t, use_virtual, outcome) ==
  IF ~p.ok
  THEN [st |-> st, out |-> <<Msg("RED", "Parse error: Invalid command syntax: ", p.error)>>]
  ELSE IF p.cmd \in commands
  THEN caught(p.cmd, dispatch(recorded(st, command_line), p.cmd, p.args, t, use_virtual, outcome))
  ELSE unregistered(recorded(st, command_line), command_line, p.cmd, use_virtual, outcome)

\* execute without the test of lines 173-174
execute_blank_parsed(st, command_line, t, use_virtual, outcome) ==
  execute_parsed(st, command_line, parse(command_line), t, use_virtual, outcome)

\* Terminal.execute: the state it leaves and the text it returns
execute(st, command_line, t, use_virtual, outcome) ==
  IF str_strip(command_line) = <<>> THEN [st |-> st, out |-> <<>>]
  ELSE execute_parsed(st, command_line, parse(command_line), t, use_virtual, outcome)

-----------------------------------------------------------------------------
\* A client that drives a VirtualFileSystem object through its methods.

Paths ==
  {Chars(p) : p \in {"/", "/tmp/new", "/etc/hosts", "documents/new", "/nodir/new",
                     "/etc/hosts/new"}}

SrcPaths == {Chars(p) : p \in {"/", "/etc/hosts", "documents"}}

DstPaths == {Chars(p) : p \in {"/", "/tmp/new", "/etc/hosts", "documents", "documents/new"}}

CdPaths == {Chars(p) : p \in {"/tmp", "..", "/etc/hosts", "~", "nosuch"}}

Contents == {"", "hello"}

\* One method call: the heap and current_path it leaves, and the record of the call.
VfsCall(h, cwd, op, args, ret) ==
  /\ now < MaxCalls
  /\ now' = now + 1
  /\ heap' = collect(h)
  /\ current_path' = cwd
  /\ last' = [op |-> op, args |-> args, ret |-> ret, host |-> <<>>]
  /\ UNCHANGED <<mode, frame, command_history, running, web>>

\* A call of a method that gives r: the heap it leaves and the value it returns.
HeapCall(op, args, r) == VfsCall(r.heap, current_path, op, args, r.ret)

CreateDirectory ==
  \E path \in Paths :
    /\ mode = "vfs"
    /\ HeapCall("create_directory", <<path>>, create_directory(heap, current_path, path, now + 1))

CreateFile ==
  \E path \in Paths, content \in {""} :
    /\ mode = "vfs"
    /\ HeapCall("create_file", <<path, content>>,
                create_file(heap, current_path, path, content, now + 1))

WriteFile ==
  \E path \in Paths, content \in Contents :
    /\ mode = "vfs"
    /\ HeapCall("write_file", <<path, content>>,
                write_file(heap, current_path, path, content, now + 1))

RemoveItem ==
  \E path \in Paths :
    /\ mode = "vfs"
    /\ HeapCall("remove_item", <<path>>, remove_item(heap, current_path, path))

MoveItem ==
  \E src \in SrcPaths, dst \in DstPaths :
    /\ mode = "vfs"
    /\ HeapCall("move_item", <<src, dst>>, move_item(heap, current_path, src, dst, now + 1))

CopyItem ==
  \E src \in SrcPaths, dst \in DstPaths :
    /\ mode = "vfs"
    /\ HeapCall("copy_item", <<src, dst>>, copy_item(heap, current_path, src, dst, now + 1))

\* A call of change_directory that gives r: the current_path it leaves and the
\* value it returns.
PathCall(op, args, r) == VfsCall(heap, r.current_path, op, args, r.ret)

ChangeDirectory ==
  \E path \in CdPaths :
    /\ mode = "vfs"
    /\ PathCall("change_directory", <<path>>, change_directory(heap, current_path, path))

-----------------------------------------------------------------------------
\* app.py: the session registry and the view functions.  The requests are
\* served by threads: a request is at line 30 of get_terminal_session (pc
\* "lookup" is passed in the step that receives it), at line 32 ("create"),
\* or at line 33 and the rest of its view function ("return").

\* the objects of the set ids
kept(objects, ids) == [t \in ids |-> objects[t]]

\* no Terminal, no session, no request
NotServing ==
  /\ terminal_sessions = <<>>
  /\ terminals = kept(<<>>, {})
  /\ requests = kept(<<>>, {})

\* Terminal.__init__: the fields of a new Terminal
Terminal(use_virtual) ==
  [use_virtual     |-> use_virtual,
   running         |-> TRUE,
   heap            |-> IF use_virtual THEN SeededHeap ELSE <<>>,
   current_path    |-> IF use_virtual THEN Chars("/home/user") ELSE <<>>,
   command_history |-> <<>>]

\* an object that exists already, when there is one, as the new Terminal
shared_terminal(objects) ==
  IF DOMAIN objects = {} THEN 1 ELSE CHOOSE t \in DOMAIN objects : TRUE

\* line 32: Terminal(use_virtual=True) is an object of its own
new_terminal(objects) ==
  IF DOMAIN objects = {} THEN 1
  ELSE 1 + CHOOSE t \in DOMAIN objects : \A u \in DOMAIN objects : u <= t

\* the values of session['session_id'] that the requests carry; the cookie is
\* kept by the client, so a request may carry an id that was cleared
SessionIds == {"s1", "s2"}

\* data['command'] of the requests to /api/execute
WebCommands == {Chars(c) : c \in {"cd /tmp", "mkdir new", " ", "uname -a"}}

\* data['query'] of the requests to /api/ai
WebQueries == {Chars(q) : q \in {"go back", ""}}

\* A request with the session id reaches line 30 of get_terminal_session.
Received(op, session_id, command) ==
  /\ now < MaxCalls
  /\ now' = now + 1
  /\ requests' = kept(requests @@ ((now + 1) :>
                    [op |-> op, session_id |-> session_id, command |-> command,
                     pc |-> IF session_id \in dict_keys(terminal_sessions)
                            THEN "return" ELSE "create"]),
                    DOMAIN requests \cup {now + 1})
  /\ last' = [op |-> "request", args |-> <<session_id, command>>, ret |-> <<>>, host |-> <<>>]
  /\ UNCHANGED <<mode, frame, heap, current_path, command_history, running, terminal_sessions,
                 terminals>>

\* A request that its view function answers before get_terminal_session.
Refused(op, session_id, command, error) ==
  /\ now < MaxCalls
  /\ now' = now + 1
  /\ last' = [op |-> op, args |-> <<session_id, command>>, ret |-> <<error>>, host |-> <<>>]
  /\ UNCHANGED <<mode, frame, heap, current_path, command_history, running, web>>

\* /api/execute, lines 69-79
ExecuteCommand ==
  \E session_id \in SessionIds, command \in WebCommands :
    /\ mode = "web"
    /\ IF str_strip(command) = <<>>
       THEN Refused("execute_command", session_id, command,
                    Msg("", "error: No command provided", <<>>))
       ELSE Received("execute_command", session_id, str_strip(command))

\* /api/ai, lines 103-113 and 116
AiCommand ==
  \E session_id \in SessionIds, query \in WebQueries :
    /\ mode = "web"
    /\ IF str_strip(query) = <<>>
       THEN Refused("ai_command", session_id, query,
                    Msg("", "error: No query provided", <<>>))
       ELSE Received("ai_command", session_id, Chars("ai ") \o str_strip(query))

\* /api/status, lines 137-140
Status ==
  \E session_id \in SessionIds :
    /\ mode = "web"
    /\ Received("status", session_id, <<>>)

\* /api/clear, lines 156-160
ClearSession ==
  \E session_id \in SessionIds :
    /\ mode = "web"
    /\ now < MaxCalls
    /\ now' = now + 1
    /\ terminal_sessions' = dict_del(terminal_sessions, session_id)
    /\ terminals' = kept(terminals, dict_values(dict_del(terminal_sessions, session_id)))
    /\ last' = [op |-> "clear_session", args |-> <<session_id>>,
                ret |-> <<Msg("", "message: Session cleared", <<>>)>>, host |-> <<>>]
    /\ UNCHANGED <<mode, frame, heap, current_path, command_history, running, requests>>

\* line 32 with Terminal() in place of Terminal(use_virtual=True)
Created_on_host(r, session_id, id) ==
  /\ terminal_sessions' = dict_set(terminal_sessions, session_id, id)
  /\ terminals' = kept(terminals @@ (id :> Terminal(FALSE)),
                       dict_values(dict_set(terminal_sessions, session_id, id)))
  /\ requests' = [requests EXCEPT ![r].pc = "return"]
  /\ last' = [op |-> "get_terminal_session", args |-> <<session_id>>, ret |-> <<>>,
              host |-> <<>>]
  /\ UNCHANGED <<mode, frame, heap, current_path, now, command_history, running>>

\* line 32, for the request that found no session at line 30, with id the
\* identity of the Terminal it builds
Created(r, session_id, id) ==
  /\ terminal_sessions' = dict_set(terminal_sessions, session_id, id)
  /\ terminals' = kept(terminals @@ (id :> Terminal(TRUE)),
                       dict_values(dict_set(terminal_sessions, session_id, id)))
  /\ requests' = [requests EXCEPT ![r].pc = "return"]
  /\ last' = [op |-> "get_terminal_session", args |-> <<session_id>>, ret |-> <<>>,
              host |-> <<>>]
  /\ UNCHANGED <<mode, frame, heap, current_path, now, command_history, running>>

CreateTerminal ==
  \E r \in DOMAIN requests :
    /\ mode = "web"
    /\ requests[r].pc = "create"
    /\ Created(r, requests[r].session_id, new_terminal(terminals))

\* the Terminal as the session a call of execute starts from
fields(terminal) ==
  [heap |-> terminal.heap, current_path |-> terminal.current_path,
   command_history |-> terminal.command_history, running |-> terminal.running, host |-> <<>>]

\* the view function's try block from the call of a Terminal method to the
\* response: the method left the Terminal id as result.st and returned result.out
Answered(r, id, result) ==
  /\ terminals' = [terminals EXCEPT ![id] =
                     [use_virtual     |-> @.use_virtual,
                      running         |-> result.st.running,
                      heap            |-> collect(result.st.heap),
                      current_path    |-> result.st.current_path,
                      command_history |-> result.st.command_history]]
  /\ requests' = kept(requests, DOMAIN requests \ {r})
  /\ last' = [op |-> requests[r].op, args |-> <<requests[r].session_id, requests[r].command>>,
              ret |-> result.out, host |-> result.st.host]
  /\ UNCHANGED <<mode, frame, heap, current_path, now, command_history, running, terminal_sessions>>

\* the except clause of the view function, for the KeyError of line 33
Failed(r, error) ==
  /\ requests' = kept(requests, DOMAIN requests \ {r})
  /\ last' = [op |-> requests[r].op, args |-> <<requests[r].session_id, requests[r].command>>,
              ret |-> <<Msg("", "error: Server error: ", error)>>, host |-> <<>>]
  /\ UNCHANGED <<mode, frame, heap, current_path, now, command_history, running, terminal_sessions,
                 terminals>>

\* what the view function of request r does with the Terminal: execute at lines
\* 82 and 116, get_current_directory at line 141
served(r, terminal) ==
  IF requests[r].op = "status"
  THEN [st |-> fields(terminal), out |-> <<Str(terminal.current_path)>>]
  ELSE execute(fields(terminal), requests[r].command, now, terminal.use_virtual,
               "returncode 0")

\* line 33 of get_terminal_session and the rest of the view function
Respond ==
  \E r \in DOMAIN requests :
    /\ mode = "web"
    /\ requests[r].pc = "return"
    /\ IF requests[r].session_id \in dict_keys(terminal_sessions)
       THEN Answered(r, dict_get(terminal_sessions, requests[r].session_id),
                     served(r, terminals[dict_get(terminal_sessions, requests[r].session_id)]))
       ELSE Failed(r, "KeyError")

InitSessions ==
  /\ mode = "web"
  /\ heap = <<>>
  /\ current_path = <<>>
  /\ now = 0
  /\ command_history = <<>>
  /\ running = TRUE
  /\ last = [op |-> "__main__", args |-> <<>>, ret |-> <<>>, host |-> <<>>]
  /\ NotServing
  /\ NotSplitting

NextSessions ==
  \/ ExecuteCommand
  \/ AiCommand
  \/ Status
  \/ ClearSession
  \/ CreateTerminal
  \/ Respond

SpecSessions == InitSessions /\ [][NextSessions]_vars

-----------------------------------------------------------------------------
\* A client that fills /tmp and lists it.

\* the names given to the children of /tmp, in the order of their creation
ChildNames == <<"b.txt", "A.txt", "z", "src", "SRC-old", "a">>

ChildKinds == {"absent", "file", "directory"}

\* the tree after the creation of a child per name of names, of the kind given
RECURSIVE populated(_, _, _)
populated(h, names, kinds) ==
  IF names = <<>> THEN collect(h)
  ELSE IF kinds[Head(names)] = "directory"
  THEN populated(create_directory(h, Chars("/"), Chars("/tmp/") \o Chars(Head(names)), 1).heap,
                 Tail(names), kinds)
  ELSE IF kinds[Head(names)] = "file"
  THEN populated(create_file(h, Chars("/"), Chars("/tmp/") \o Chars(Head(names)), "", 1).heap,
                 Tail(names), kinds)
  ELSE populated(h, Tail(names), kinds)

reversed(s) == [i \in 1..Len(s) |-> s[Len(s) + 1 - i]]

ListedPaths == {Chars(p) : p \in {"/tmp", ".", "/etc/hosts", "/nosuch"}}

InitListing ==
  /\ mode = "listing"
  /\ \E kinds \in [{ChildNames[i] : i \in 1..Len(ChildNames)} -> ChildKinds],
        names \in {ChildNames, reversed(ChildNames)} :
       heap = populated(SeededHeap, names, kinds)
  /\ current_path = Chars("/home/user")
  /\ now = 1
  /\ command_history = <<>>
  /\ running = TRUE
  /\ last = [op |-> "__init__", args |-> <<>>, ret |-> <<>>, host |-> <<>>]
  /\ NotServing
  /\ NotSplitting

ListDirectory ==
  \E path \in ListedPaths :
    /\ mode = "listing"
    /\ last.op = "__init__"
    /\ last' = [op |-> "list_directory", args |-> <<path>>,
                ret |-> list_directory(heap, current_path, path), host |-> <<>>]
    /\ UNCHANGED <<mode, frame, heap, current_path, now, command_history, running, web>>

Patterns == {Chars(p) : p \in {"*.txt", "a*"}}

SearchPaths == {None} \cup {Chars(p) : p \in {"/tmp", "../../tmp/", "/", "/nosuch"}}

FindFiles ==
  \E pattern \in Patterns, search_path \in SearchPaths :
    /\ mode = "listing"
    /\ last.op = "__init__"
    /\ last' = [op |-> "find_files", args |-> <<pattern, search_path>>,
                ret |-> find_files(heap, current_path, pattern, search_path), host |-> <<>>]
    /\ UNCHANGED <<mode, frame, heap, current_path, now, command_history, running, web>>

NextListing ==
  \/ ListDirectory
  \/ FindFiles

SpecListing == InitListing /\ [][NextListing]_vars

-----------------------------------------------------------------------------
\* A client that types lines into a Terminal.

\* the session a call of execute starts from
session ==
  [heap |-> heap, current_path |-> current_path, command_history |-> command_history,
   running |-> running, host |-> <<>>]

\* the session and the record of the call after execute gave r
Executed(command_line, r) ==
  /\ heap' = IF mode # "real" THEN collect(r.st.heap) ELSE heap
  /\ current_path' = r.st.current_path
  /\ command_history' = r.st.command_history
  /\ running' = r.st.running
  /\ last' = [op |-> "execute", args |-> <<command_line>>, ret |-> r.out, host |-> r.st.host]

\* One call of execute on a line typed at the prompt.
Execute ==
  /\ mode \in {"virtual", "real", "files"}
  /\ now < MaxCalls
  /\ \E command_line \in Typed(mode) :
       \E outcome \in IF mode = "real" THEN HostOutcomes ELSE {"returncode 0"} :
         Executed(command_line, execute(session, command_line, now + 1, mode # "real", outcome))
  /\ now' = now + 1
  /\ UNCHANGED <<mode, frame, web>>

-----------------------------------------------------------------------------
\* Terminal(use_virtual) builds a VirtualFileSystem only for a sandboxed session;
\* a real-mode session has none, and its directory is the host's.
Init ==
  /\ mode \in {"vfs", "virtual", "real"}
  /\ heap = IF mode = "real" THEN <<>> ELSE SeededHeap
  /\ current_path = IF mode = "real" THEN <<>> ELSE Chars("/home/user")
  /\ now = 0
  /\ command_history = <<>>
  /\ running = TRUE
  /\ last = [op |-> "__init__", args |-> <<>>, ret |-> TRUE, host |-> <<>>]
  /\ NotServing
  /\ NotSplitting

Next ==
  \/ CreateDirectory
  \/ CreateFile
  \/ WriteFile
  \/ RemoveItem
  \/ MoveItem
  \/ CopyItem
  \/ ChangeDirectory
  \/ Execute

Spec == Init /\ [][Next]_vars

-----------------------------------------------------------------------------
\* A sandboxed session whose client works on files.

InitFiles ==
  /\ mode = "files"
  /\ heap = SeededHeap
  /\ current_path = Chars("/home/user")
  /\ now = 0
  /\ command_history = <<>>
  /\ running = TRUE
  /\ last = [op |-> "__init__", args |-> <<>>, ret |-> TRUE, host |-> <<>>]
  /\ NotServing
  /\ NotSplitting

SpecFiles == InitFiles /\ [][Execute]_vars

-----------------------------------------------------------------------------
\* normalize_path on its own: one call on a path string drawn at the start.

PathAlphabet == {"/", ".", "a"}

RECURSIVE Strings(_)
Strings(n) ==
  IF n = 0 THEN {<<>>}
  ELSE LET shorter == Strings(n - 1)
       IN  shorter \cup {Append(s, c) : s \in shorter, c \in PathAlphabet}

\* values current_path takes: normalize_path's own results
WorkingDirectories == {Chars("/"), Chars("/home/user"), Chars("/a")}

InitNormalize ==
  /\ mode = "pure"
  /\ heap = SeededHeap
  /\ current_path \in WorkingDirectories
  /\ now = 0
  /\ command_history = <<>>
  /\ running = TRUE
  /\ \E path \in Strings(MaxPathLen) :
       last = [op |-> "input", args |-> <<path>>, ret |-> <<>>, host |-> <<>>]
  /\ NotServing
  /\ NotSplitting

Normalize ==
  /\ mode = "pure"
  /\ last.op = "input"
  /\ last' = [op |-> "normalize_path", args |-> last.args,
              ret |-> normalize_path(current_path, last.args[1]), host |-> <<>>]
  /\ now' = now + 1
  /\ UNCHANGED <<mode, frame, heap, current_path, command_history, running, web>>

NextNormalize == Normalize

SpecNormalize == InitNormalize /\ [][NextNormalize]_vars

-----------------------------------------------------------------------------
\* interpret on its own: one call on a query drawn at the start, in a session
\* whose directory is drawn too.

Vocabulary == {Chars(w) : w \in {"create", "folder", "file", "called", "x", "show"}}

\* the queries of at most n words of Vocabulary, one space between words
RECURSIVE Sentences(_)
Sentences(n) ==
  IF n = 0 THEN {<<>>}
  ELSE LET shorter == Sentences(n - 1)
       IN  shorter \cup {IF s = <<>> THEN w ELSE s \o Chars(" ") \o w :
                           s \in shorter, w \in Vocabulary}

\* queries as a user says them, the examples of cmd_ai's help text among them
Said ==
  {Chars(q) : q \in
     {"create a folder called projects", "create folder called projects",
      "create folder temp", "folder create x", "x y folder create", "make file",
      "show me what files are here", "show detailed files", "ls -l",
      "copy readme.txt to backup folder", "go to documents directory",
      "find files with .py extension", "show system information",
      "delete file olddata.txt", "delete folder documents", "where am i",
      "   go back  ", "   ", "hello"}}

Queries == Sentences(MaxWords) \cup Said

InitInterpret ==
  /\ mode = "pure"
  /\ heap = SeededHeap
  /\ current_path \in {Chars("/home/user"), Chars("/tmp")}
  /\ now = 0
  /\ command_history = <<>>
  /\ running = TRUE
  /\ \E query \in Queries :
       last = [op |-> "query", args |-> <<query>>, ret |-> <<>>, host |-> <<>>]
  /\ NotServing
  /\ NotSplitting

Interpret ==
  /\ mode = "pure"
  /\ last.op = "query"
  /\ last' = [op |-> "interpret", args |-> last.args, ret |-> interpret(last.args[1]),
              host |-> <<>>]
  /\ now' = now + 1
  /\ UNCHANGED <<mode, frame, heap, current_path, command_history, running, web>>

SpecInterpret == InitInterpret /\ [][Interpret]_vars

-----------------------------------------------------------------------------
\* CommandParser.parse_redirections on its own: one call on a list of arguments
\* drawn at the start.

\* the while loop of lines 153-207 from index i (counted from 1) on
RECURSIVE parse_redirections_from(_, _, _, _)
parse_redirections_from(args, i, clean_args, redirections) ==
  LET arg == args[i]
      separate(key) ==
        IF i + 1 <= Len(args)
        THEN parse_redirections_from(args, i + 2, clean_args, dict_set(redirections, key, args[i + 1]))
        ELSE parse_redirections_from(args, i + 1, Append(clean_args, arg), redirections)
      glued(key, n) ==
        parse_redirections_from(args, i + 1, clean_args,
                                dict_set(redirections, key, SubSeq(arg, n + 1, Len(arg))))
  IN  IF i > Len(args) THEN [clean_args |-> clean_args, redirections |-> redirections]
      ELSE IF arg = Chars(">") THEN separate("stdout")
      ELSE IF arg = Chars(">>") THEN separate("stdout_append")
      ELSE IF arg = Chars("2>") THEN separate("stderr")
      ELSE IF arg = Chars("<") THEN separate("stdin")
      ELSE IF startswith(arg, Chars(">")) THEN glued("stdout", 1)
      ELSE IF startswith(arg, Chars(">>")) THEN glued("stdout_append", 2)
      ELSE IF startswith(arg, Chars("2>")) THEN glued("stderr", 2)
      ELSE IF startswith(arg, Chars("<")) THEN glued("stdin", 1)
      ELSE parse_redirections_from(args, i + 1, Append(clean_args, arg), redirections)

parse_redirections(args) == parse_redirections_from(args, 1, <<>>, <<>>)

Tokens ==
  {Chars(a) : a \in {">", ">>", "2>", "<", ">f", ">>f", "2>f", "<f", "f", "echo"}}

RECURSIVE ArgLists(_)
ArgLists(n) ==
  IF n = 0 THEN {<<>>}
  ELSE LET shorter == ArgLists(n - 1)
       IN  shorter \cup {Append(s, a) : s \in shorter, a \in Tokens}

InitRedirections ==
  /\ mode = "pure"
  /\ heap = SeededHeap
  /\ current_path = Chars("/home/user")
  /\ now = 0
  /\ command_history = <<>>
  /\ running = TRUE
  /\ \E args \in ArgLists(MaxArgs) :
       last = [op |-> "args", args |-> <<args>>, ret |-> <<>>, host |-> <<>>]
  /\ NotServing
  /\ NotSplitting

ParseRedirections ==
  /\ mode = "pure"
  /\ last.op = "args"
  /\ last' = [op |-> "parse_redirections", args |-> last.args,
              ret |-> parse_redirections(last.args[1]), host |-> <<>>]
  /\ now' = now + 1
  /\ UNCHANGED <<mode, frame, heap, current_path, command_history, running, web>>

SpecRedirections == InitRedirections /\ [][ParseRedirections]_vars

-----------------------------------------------------------------------------
\* CommandParser.split_on_operators on its own: one call on a line drawn at the
\* start, followed statement by statement through its while loop.

\* && or || stands at position k of s
operator_at(s, k) == k + 1 <= Len(s) /\ s[k] = s[k + 1] /\ s[k] \in {"&", "|"}

\* every character of s from position j to position k is whitespace
blank(s, j, k) == \A n \in j..k : s[n] \in Whitespace

\* re.split(r'(\s*&&\s*|\s*\|\|\s*)', s) from position from on: the text before
\* the leftmost match, the match (it is a group), and the split of the rest
RECURSIVE re_split(_, _)
re_split(s, from) ==
  LET found == {k \in from..Len(s) : operator_at(s, k)}
      first == CHOOSE k \in found : \A n \in found : k <= n
      start(k) == CHOOSE j \in from..k : blank(s, j, k - 1) /\ \A n \in from..k : blank(s, n, k - 1) => j <= n
      end(k) == CHOOSE e \in (k + 1)..Len(s) : blank(s, k + 2, e) /\ \A n \in (k + 1)..Len(s) : blank(s, k + 2, n) => n <= e
      pieces(j, e) == <<SubSeq(s, from, j - 1), SubSeq(s, j, e)>> \o re_split(s, e + 1)
  IN  IF found = {} THEN <<SubSeq(s, from, Len(s))>>
      ELSE pieces(start(first), end(first))

\* lines 243-246: the call has split the line and is at the while statement;
\* i counts from 1 here, from 0 in the code
called(command_line) ==
  [pc |-> "while", parts |-> re_split(command_line, 1), i |-> 1, commands |-> <<>>]

\* lines 248-259: one run of the loop body
body(f) ==
  LET cmd == str_strip(f.parts[f.i])
      next_part == str_strip(f.parts[f.i + 1])
      appended(operator, step) ==
        [f EXCEPT !.pc = "while", !.i = f.i + step,
                  !.commands = Append(f.commands, <<cmd, operator>>)]
  IN  IF cmd # <<>>
      THEN IF f.i + 1 <= Len(f.parts)
           THEN IF next_part \in {Chars("&&"), Chars("||")}
                THEN appended(next_part, 2)
                ELSE appended(None, 1)
           ELSE appended(None, 1)
      ELSE [f EXCEPT !.pc = "while"]

Pieces == {Chars(p) : p \in {"a", " ", "&&", "||", "b &"}}

RECURSIVE CommandLines(_)
CommandLines(n) ==
  IF n = 0 THEN {<<>>}
  ELSE LET shorter == CommandLines(n - 1)
       IN  shorter \cup {s \o p : s \in shorter, p \in Pieces}

InitSplit ==
  /\ mode = "pure"
  /\ heap = SeededHeap
  /\ current_path = Chars("/home/user")
  /\ now = 0
  /\ command_history = <<>>
  /\ running = TRUE
  /\ \E command_line \in CommandLines(MaxPieces) :
       last = [op |-> "line", args |-> <<command_line>>, ret |-> <<>>, host |-> <<>>]
  /\ NotServing
  /\ NotSplitting

SplitOnOperators ==
  /\ mode = "pure"
  /\ last.op = "line"
  /\ frame.pc = "idle"
  /\ frame' = called(last.args[1])
  /\ last' = [last EXCEPT !.op = "split_on_operators"]
  /\ UNCHANGED <<mode, heap, current_path, now, command_history, running, web>>

\* line 247, the condition holds
WhileTest ==
  /\ mode = "pure"
  /\ frame.pc = "while"
  /\ frame.i <= Len(frame.parts)
  /\ frame' = [frame EXCEPT !.pc = "body"]
  /\ UNCHANGED <<mode, heap, current_path, now, command_history, running, last, web>>

WhileBody ==
  /\ mode = "pure"
  /\ frame.pc = "body"
  /\ frame' = body(frame)
  /\ UNCHANGED <<mode, heap, current_path, now, command_history, running, last, web>>

\* line 247, the condition fails, and line 261
SplitReturn ==
  /\ mode = "pure"
  /\ frame.pc = "while"
  /\ frame.i > Len(frame.parts)
  /\ frame' = [frame EXCEPT !.pc = "return"]
  /\ last' = [last EXCEPT !.ret = frame.commands]
  /\ UNCHANGED <<mode, heap, current_path, now, command_history, running, web>>

NextSplit ==
  \/ SplitOnOperators
  \/ WhileTest
  \/ WhileBody
  \/ SplitReturn

SpecSplit == InitSplit /\ [][NextSplit]_vars

\* the interpreter goes on to the next statement as long as there is one
FairSplit == SpecSplit /\ WF_vars(NextSplit)

-----------------------------------------------------------------------------
\* Properties.

Sandboxed == mode = "virtual"

HasFilesystem == mode \in {"vfs", "virtual"}

\* the objects under node n, by identity
subtree(h, n) == [m \in reach(h, {n}, {}) |-> h[m]]

\* path q is p or lies under p
under(cwd, q, p) ==
  LET np == normalize_path(cwd, p)
      nq == normalize_path(cwd, q)
  IN  \/ np = nq
      \/ np = Chars("/")
      \/ startswith(nq, np \o Chars("/"))

\* C1: in a sandboxed session current_path is at all times an absolute
\* normalized path that resolves to an existing directory of the simulated
\* filesystem.
C1_CurrentPathResolves ==
  Sandboxed =>
    /\ startswith(current_path, Chars("/"))
    /\ normalize_path(Chars("/"), current_path) = current_path
    /\ is_directory(heap, current_path, current_path)

\* C2: in every reachable state of the simulated filesystem, the seeded tree
\* included, the size of every file node is the length of its content.
C2_SizeIsLength ==
  HasFilesystem =>
    \A n \in DOMAIN heap : heap[n].type = "file" => heap[n].size = Len(heap[n].content)

\* C3: whatever the operations and file commands and their path arguments, the
\* path / exists and is a directory.
C3_RootIsDirectory ==
  HasFilesystem =>
    /\ exists(heap, current_path, Chars("/"))
    /\ is_directory(heap, current_path, Chars("/"))

\* remove_item was called on / and the root is still there
C3_Witness ==
  /\ mode = "vfs"
  /\ last.op = "remove_item"
  /\ last.args = <<Chars("/")>>
  /\ is_directory(heap, current_path, Chars("/"))

\* C4: when move_item(src, dst) returns true, then afterwards src does not
\* exist, dst exists, and the node at dst is the one src named before, with its
\* content and subtree (the top node's modified time apart).
C4_MoveItemPostcondition ==
  [][(mode = "vfs" /\ last'.op = "move_item" /\ last'.ret)
       => LET src   == last'.args[1]
              dst   == last'.args[2]
              moved == get_node(heap, current_path, src)
              at    == get_node(heap', current_path', dst)
          IN  /\ ~exists(heap', current_path', src)
              /\ exists(heap', current_path', dst)
              /\ at = moved
              /\ [subtree(heap', at) EXCEPT ![at].modified = 0]
                   = [subtree(heap, moved) EXCEPT ![moved].modified = 0]]_vars

\* C5: after write_file(p, c) returns true, read_file(p) returns c and the size
\* of the node at p is len(c).
C5_WriteReadRoundTrip ==
  (mode = "vfs" /\ last.op = "write_file" /\ last.ret)
    => LET p == last.args[1]
           c == last.args[2]
       IN  /\ read_file(heap, current_path, p) = <<c>>
           /\ heap[get_node(heap, current_path, p)].size = Len(c)

\* C6: after copy_item(src, dst) has succeeded with neither path under the
\* other, the subtrees at src and at dst share no node; a write_file,
\* create_file, create_directory or remove_item that follows under src leaves
\* the subtree at dst as it was, and one under dst leaves the subtree at src as
\* it was.
C6_CopyIsIndependent ==
  [][(/\ mode = "vfs"
      /\ last.op = "copy_item"
      /\ last.ret
      /\ ~under(current_path, last.args[1], last.args[2])
      /\ ~under(current_path, last.args[2], last.args[1]))
       => LET src == get_node(heap, current_path, last.args[1])
              dst == get_node(heap, current_path, last.args[2])
              one_path == last'.op \in {"write_file", "create_file", "create_directory",
                                        "remove_item"}
          IN  /\ reach(heap, {src}, {}) \cap reach(heap, {dst}, {}) = {}
              /\ (one_path /\ under(current_path, last'.args[1], last.args[1]))
                   => /\ get_node(heap', current_path', last.args[2]) = dst
                      /\ subtree(heap', dst) = subtree(heap, dst)
              /\ (one_path /\ under(current_path, last'.args[1], last.args[2]))
                   => /\ get_node(heap', current_path', last.args[1]) = src
                      /\ subtree(heap', src) = subtree(heap, src)]_vars

\* documents was copied to /tmp/new by the first call, then a file was created
\* in documents, and the copy does not have it
C6_Witness ==
  /\ mode = "vfs"
  /\ last.op = "create_file"
  /\ last.args[1] = Chars("documents/new")
  /\ last.ret
  /\ is_directory(heap, current_path, Chars("/tmp/new"))
  /\ exists(heap, current_path, Chars("/tmp/new/readme.txt"))
  /\ ~exists(heap, current_path, Chars("/tmp/new/new"))

\* C7: create_directory(path) returns false and leaves the tree as it was when
\* the parent of path does not exist, or is not a directory, or an entry exists
\* at path; it returns true only when it has added a new empty directory at a
\* path that did not exist.
C7_CreateDirectoryFailures ==
  [][(mode = "vfs" /\ last'.op = "create_directory")
       => LET path   == last'.args[1]
              parent == dirname(normalize_path(current_path, path))
              made   == get_node(heap', current_path', path)
          IN  /\ (\/ ~is_directory(heap, current_path, parent)
                  \/ exists(heap, current_path, path))
                   => (~last'.ret /\ heap' = heap)
              /\ last'.ret
                   => /\ ~exists(heap, current_path, path)
                      /\ is_directory(heap', current_path', path)
                      /\ heap'[made].children = <<>>]_vars

\* C8: normalize_path of its own result is that result, and a path whose '..'
\* segments outnumber the segments before them comes out as a path below /
\* that keeps no '..', never as an error.
C8_NormalizeIdempotent ==
  last.op = "normalize_path"
    => LET r == last.ret
       IN  /\ r # IndexError
           /\ normalize_path(current_path, r) = r
           /\ startswith(r, Chars("/"))
           /\ \A part \in {split(r, "/")[i] : i \in 2..Len(split(r, "/"))} :
                part \notin {Chars("."), Chars("..")} /\ (part = <<>> => r = Chars("/"))

\* '/../..' was normalized from /a, two levels above the root, and gave /
C8_Witness ==
  /\ last.op = "normalize_path"
  /\ current_path = Chars("/a")
  /\ last.args = <<Chars("../..")>>
  /\ last.ret = Chars("/")

\* C9: in a sandboxed session, execute of a line whose command name is not a
\* key of the dispatch table returns 'Command not found' and starts no host
\* shell; in a real-mode session the same line goes to the host shell.
C9_UnknownCommand ==
  (/\ last.op = "execute"
   /\ str_strip(last.args[1]) # <<>>
   /\ parse(last.args[1]).ok
   /\ parse(last.args[1]).cmd \notin commands)
    => LET line == last.args[1]
       IN  /\ mode = "virtual"
                => /\ last.ret = <<Msg("RED", "Command not found: ", parse(line).cmd)>>
                   /\ last.host = <<>>
           /\ mode = "real"
                => last.host = <<[api |-> "subprocess.run", command |-> line]>>

\* nosuchcmd was typed into a sandboxed session
C9_Witness ==
  /\ mode = "virtual"
  /\ last.op = "execute"
  /\ last.args = <<Chars("nosuchcmd")>>
  /\ last.ret = <<Msg("RED", "Command not found: ", Chars("nosuchcmd"))>>

\* C10: in a sandboxed session no call of execute, on any line, a registered
\* command or not, starts a host shell.
C10_NoHostShellInSandbox ==
  (Sandboxed /\ last.op = "execute") => last.host = <<>>

\* h is a prefix of g
is_prefix(h, g) == Len(h) <= Len(g) /\ SubSeq(g, 1, Len(h)) = h

\* C11: a call of execute on a line that is not blank and parses appends that
\* raw line to command_history before the handler runs (the history command
\* lists its own line, a nested execute of the ai handler appends after it),
\* whether the command succeeds, fails, raises or is unknown; and whatever the
\* call, the history before it is a prefix of the history after it.
C11_HistoryAppended ==
  [][/\ is_prefix(command_history, command_history')
     /\ (/\ last'.op = "execute"
         /\ str_strip(last'.args[1]) # <<>>
         /\ parse(last'.args[1]).ok)
          => LET line == last'.args[1]
                 n    == Len(command_history)
             IN  /\ Len(command_history') > n
                 /\ command_history'[n + 1] = line
                 /\ parse(line).cmd # Chars("ai") => command_history' = Append(command_history, line)
                 /\ parse(line).cmd = Chars("history")
                      => last'.ret[Len(last'.ret)]
                           = [kind |-> "history", number |-> n + 1, cmd |-> line]]_vars

\* an unknown command, then an ai line whose nested cd fails: three lines recorded
C11_Witness ==
  /\ mode = "virtual"
  /\ last.op = "execute"
  /\ command_history = <<Chars("nosuchcmd"), Chars("ai go to downloads"), Chars("cd Downloads")>>
  /\ current_path = Chars("/home/user")

\* C12: execute on an empty or whitespace-only line returns the empty string,
\* starts nothing on the host, and leaves command_history, current_path, the
\* running flag and the filesystem as they were.
C12_BlankLine ==
  [][(last'.op = "execute" /\ str_strip(last'.args[1]) = <<>>)
       => /\ last'.ret = <<>>
          /\ last'.host = <<>>
          /\ UNCHANGED <<heap, current_path, command_history, running>>]_vars

\* a line of three spaces was typed after mkdir new had been run
C12_Witness ==
  /\ mode = "virtual"
  /\ last.op = "execute"
  /\ last.args = <<Chars("   ")>>
  /\ last.ret = <<>>
  /\ command_history = <<Chars("mkdir new")>>
  /\ is_directory(heap, current_path, Chars("new"))

\* C13: when parse raises on the line (a quotation left open), execute returns
\* the parse-error text, appends nothing to command_history, starts no handler
\* and no host shell, and leaves the filesystem and current_path as they were.
C13_ParseError ==
  [][(/\ last'.op = "execute"
      /\ str_strip(last'.args[1]) # <<>>
      /\ ~parse(last'.args[1]).ok)
       => /\ last'.ret = <<Msg("RED", "Parse error: Invalid command syntax: ",
                                "No closing quotation")>>
          /\ last'.host = <<>>
          /\ UNCHANGED <<heap, current_path, command_history, running>>]_vars

\* in a real-mode session, echo "a was typed after nosuchcmd had gone to the
\* host shell: the history holds the first line only
C13_Witness ==
  /\ mode = "real"
  /\ last.op = "execute"
  /\ last.args = <<Chars("echo \"a")>>
  /\ last.host = <<>>
  /\ command_history = <<Chars("nosuchcmd")>>

\* the pieces of out are texts, none an exception on its way out
RECURSIVE is_text(_)
is_text(out) ==
  \A i \in 1..Len(out) :
    /\ out[i].kind # "exception"
    /\ out[i].kind = "indented" => is_text(out[i].out)

\* C14: whatever the line, execute returns a text and lets no exception out;
\* when a handler raises (cmd_pwd in a real-mode session whose working
\* directory is gone) the text is the 'Error executing' message, also when the
\* handler was started by the nested execute of the ai handler.
C14_NoExceptionLeaves ==
  last.op = "execute"
    => /\ is_text(last.ret)
       /\ (mode = "real" /\ last.args[1] \in {Chars("pwd"), Chars(" pwd ")})
            => last.ret \in {<<[kind |-> "host", cmd |-> Chars("pwd"), args |-> <<>>]>>,
                             <<Msg("RED", "Error executing ", <<Chars("pwd"), "OSError">>)>>}
       /\ (mode = "real" /\ last.args[1] = Chars("ai where am i"))
            => /\ Len(last.ret) = 3
               /\ last.ret[3].kind = "indented"
               /\ last.ret[3].out
                    \in {<<[kind |-> "host", cmd |-> Chars("pwd"), args |-> <<>>]>>,
                         <<Msg("RED", "Error executing ", <<Chars("pwd"), "OSError">>)>>}

\* pwd raised inside the execute that the ai handler started, and the outer
\* execute returned the text of the inner one
C14_Witness ==
  /\ mode = "real"
  /\ last.op = "execute"
  /\ last.args = <<Chars("ai where am i")>>
  /\ last.ret[3] = [kind |-> "indented",
                    out |-> <<Msg("RED", "Error executing ", <<Chars("pwd"), "OSError">>)>>]
  /\ command_history = <<Chars("ai where am i"), Chars("pwd")>>

\* C15: in a sandboxed session, rmdir on a directory that has a child returns
\* the 'Directory not empty' message, which is not the 'Directory not found'
\* one, and removes nothing; when rmdir changes the tree, the directory it was
\* given had no child and is gone afterwards.
C15_RmdirNotEmpty ==
  [][(/\ mode = "virtual"
      /\ last'.op = "execute"
      /\ parse(last'.args[1]).ok
      /\ parse(last'.args[1]).cmd = Chars("rmdir")
      /\ parse(last'.args[1]).args # <<>>)
       => LET dir_name == parse(last'.args[1]).args[1]
              node     == get_node(heap, current_path, dir_name)
              is_a_directory == is_directory(heap, current_path, dir_name)
          IN  /\ (is_a_directory /\ heap[node].children # <<>>)
                   => /\ last'.ret = <<Msg("RED", "Directory not empty: ", dir_name)>>
                      /\ last'.ret # <<Msg("RED", "Directory not found: ", dir_name)>>
                      /\ heap' = heap
              /\ heap' # heap
                   => /\ is_a_directory
                      /\ heap[node].children = <<>>
                      /\ ~exists(heap', current_path, dir_name)
                      /\ DOMAIN heap' = DOMAIN heap \ {node}
                      /\ last'.ret = <<Msg("GREEN", "Directory removed: ", dir_name)>>]_vars

\* rmdir removed the empty /tmp, then rmdir . was refused: /home/user has children
C15_Witness ==
  /\ mode = "virtual"
  /\ last.op = "execute"
  /\ last.args = <<Chars("rmdir .")>>
  /\ last.ret = <<Msg("RED", "Directory not empty: ", Chars("."))>>
  /\ command_history = <<Chars("rmdir /tmp"), Chars("rmdir .")>>
  /\ ~exists(heap, current_path, Chars("/tmp"))
  /\ exists(heap, current_path, Chars("documents/readme.txt"))

is_str(x) == \A i \in 1..Len(x) : x[i] \in {Ascii[k] : k \in 1..Len(Ascii)}

\* C17: for every query interpret returns a list of zero or one (command,
\* args) pair, the command a key of the dispatch table and every argument a
\* string, whether the pair comes from the pattern table or from the
\* create/make fallback.
C17_InterpretAtMostOne ==
  last.op = "interpret"
    => /\ Len(last.ret) \in {0, 1}
       /\ \A i \in 1..Len(last.ret) :
            /\ last.ret[i].cmd \in commands
            /\ \A j \in 1..Len(last.ret[i].args) :
                 is_str(last.ret[i].args[j]) /\ last.ret[i].args[j] # <<>>

\* 'folder create x' matches no pattern and the fallback gave mkdir x, one command
C17_Witness ==
  /\ last.op = "interpret"
  /\ last.args = <<Chars("folder create x")>>
  /\ last.ret = <<Command(Chars("mkdir"), <<Chars("x")>>)>>

\* C18: interpret("create a folder called projects") returns the one command
\* ("mkdir", ["projects"]).
C18_FolderCalledProjects ==
  (last.op = "interpret" /\ last.args = <<Chars("create a folder called projects")>>)
    => last.ret = <<Command(Chars("mkdir"), <<Chars("projects")>>)>>

\* the least of a set of numbers
least(hits) == CHOOSE k \in hits : \A j \in hits : k <= j

\* the commands made from pattern k of the list
made_from(list, k, query) ==
  <<process_match(list[k].type, re_search(list[k].pattern, query).groups)>>

\* the commands made from the first pattern of the list that matches the
\* query, from the words of the query when none does
made_from_first(list, query) ==
  IF query = <<>> THEN <<>>
  ELSE IF \E k \in 1..Len(list) : re_search(list[k].pattern, query).ok
  THEN made_from(list,
                 least({k \in 1..Len(list) : re_search(list[k].pattern, query).ok}),
                 query)
  ELSE keywords(words_of(lower(query), <<>>, <<>>))

\* C19: what interpret returns is made from the first pattern, in the order
\* the categories and their patterns are declared, that matches the stripped
\* query (from the fallback on the words when none matches), whatever the
\* session's directory; and the call leaves the session as it was.
C19_FirstMatchWins ==
  [][last'.op = "interpret"
       => /\ last'.ret = made_from_first(pattern_list(command_patterns),
                                         str_strip(last'.args[1]))
          /\ UNCHANGED <<heap, current_path, command_history, running>>]_vars

\* 'show detailed files' matches a pattern of list and one of list_detailed:
\* the result is that of list, declared first
C19_Witness ==
  /\ last.op = "interpret"
  /\ last.args = <<Chars("show detailed files")>>
  /\ last.ret = <<Command(Chars("ls"), <<>>)>>
  /\ current_path = Chars("/tmp")

\* C20: a step taken for one session id (a request received or answered, a
\* Terminal built, a session cleared) leaves every other session id of the
\* registry with the Terminal it had, and that Terminal's filesystem,
\* current_path and command_history as they were; and no two session ids have
\* the same Terminal.
C20_SessionsShareNothing ==
  [][\A other \in dict_keys(terminal_sessions) :
       /\ other # last'.args[1]
            => /\ other \in dict_keys(terminal_sessions')
               /\ dict_get(terminal_sessions', other) = dict_get(terminal_sessions, other)
               /\ terminals'[dict_get(terminal_sessions', other)]
                    = terminals[dict_get(terminal_sessions, other)]
       /\ \A session_id \in dict_keys(terminal_sessions) :
            session_id # other
              => dict_get(terminal_sessions, session_id) # dict_get(terminal_sessions, other)]_vars

\* s1 has changed to /tmp, s2 has made a directory: each sees its own command only
C20_Witness ==
  /\ mode = "web"
  /\ dict_keys(terminal_sessions) = {"s1", "s2"}
  /\ terminals[dict_get(terminal_sessions, "s1")].current_path = Chars("/tmp")
  /\ terminals[dict_get(terminal_sessions, "s1")].command_history = <<Chars("cd /tmp")>>
  /\ terminals[dict_get(terminal_sessions, "s2")].current_path = Chars("/home/user")
  /\ terminals[dict_get(terminal_sessions, "s2")].command_history = <<Chars("mkdir new")>>
  /\ ~is_directory(terminals[dict_get(terminal_sessions, "s1")].heap, Chars("/home/user"),
                   Chars("new"))
  /\ is_directory(terminals[dict_get(terminal_sessions, "s2")].heap, Chars("/home/user"),
                  Chars("new"))

\* the path that change_directory normalizes: ~ stands for the home directory
cd_target(cwd, path) ==
  normalize_path(cwd, IF path = Chars("~") THEN Chars("/home/user") ELSE path)

\* C21: change_directory(path) returns True and makes the normalized target the
\* current_path when the target is a directory of the tree, returns False and
\* keeps current_path otherwise, and leaves the tree as it was in both cases.
C21_ChangeDirectory ==
  [][last'.op = "change_directory"
       => /\ heap' = heap
          /\ IF has_type(heap, get_node(heap, current_path,
                                        cd_target(current_path, last'.args[1])), "directory")
             THEN /\ last'.ret = TRUE
                  /\ current_path' = cd_target(current_path, last'.args[1])
             ELSE /\ last'.ret = FALSE
                  /\ current_path' = current_path]_vars

\* .. took the session from /home/user to /home
C21_Witness ==
  /\ last.op = "change_directory"
  /\ last.args = <<Chars("..")>>
  /\ last.ret = TRUE
  /\ current_path = Chars("/home")

\* the texts list_directory makes of the children of node d that are directories
\* (dirs TRUE) or are not (dirs FALSE)
listed_texts(h, d, dirs) ==
  {IF dirs THEN h[d].children[i][1] \o Chars("/") ELSE h[d].children[i][1] :
     i \in {k \in 1..Len(h[d].children) : (h[h[d].children[k][2]].type = "directory") = dirs}}

\* ret lists each child of d once, the files before the directories
files_then_directories(h, d, ret) ==
  /\ Len(ret) = Len(h[d].children)
  /\ {ret[i] : i \in 1..Len(ret)} = listed_texts(h, d, TRUE) \cup listed_texts(h, d, FALSE)
  /\ \A i, j \in 1..Len(ret) : i < j /\ ret[i] \in listed_texts(h, d, TRUE) => ret[j] \in listed_texts(h, d, TRUE)

\* the text without the / that marks a directory
child_name(text) == IF endswith(text, "/") THEN SubSeq(text, 1, Len(text) - 1) ELSE text

C23_LsMissingPath ==
  /\ mode = "files"
  /\ last.op = "execute"
  /\ last.args[1] = Chars("ls /nosuch")
  /\ ~exists(heap, current_path, Chars("/nosuch"))
  => /\ Len(last.ret) = 1
     /\ last.ret[1].kind = "msg"
     /\ last.ret[1].text = "Directory not found: "
     /\ last.ret[1].text # "(empty directory)"

\* the answer of ls for the detailed listing of the current directory
detailed_answer(items) ==
  IF items = <<>> THEN <<Msg("YELLOW", "(empty directory)", <<>>)>>
  ELSE <<[kind |-> "listing", detailed |-> TRUE,
          items |-> [i \in 1..Len(items) |-> ls_line(items[i])]]>>

\* C25: ls with -l gives the detailed listing of the current directory when no
\* path is typed, and when the path typed is . the answer is the same with -l
\* before the path as after it.
C25_LsFlagByPresence ==
  /\ mode = "files"
  /\ last.op = "execute"
  /\ last.args[1] \in {Chars("ls -l"), Chars("ls -l ."), Chars("ls . -l")}
  => last.ret = detailed_answer(get_detailed_listing(heap, current_path, current_path))

\* the commands of FileOperations that change the tree
mutating_commands ==
  {Chars(c) : c \in {"mkdir", "rmdir", "rm", "touch", "cp", "mv"}}

\* C24: in a sandboxed session, a mkdir, rmdir, rm (without -f or --force),
\* touch, cp or mv typed with an argument that leaves the tree as it was
\* answers with a text that is not empty.
C24_NoSilentFailure ==
  [][(/\ mode = "files"
      /\ last'.op = "execute"
      /\ parse(last'.args[1]).ok
      /\ parse(last'.args[1]).cmd \in mutating_commands
      /\ parse(last'.args[1]).args # <<>>
      /\ ~in_args(parse(last'.args[1]).args, Chars("-f"))
      /\ ~in_args(parse(last'.args[1]).args, Chars("--force"))
      /\ heap' = heap)
     => truthy(last'.ret)]_vars

\* the arguments that do not start with -
file_args(args) == SelectSeq(args, LAMBDA a : ~startswith(a, Chars("-")))

\* cp with these arguments has no source and destination, or a source that does
\* not exist, or a directory as source and neither -r nor --recursive
cp_refused(h, cwd, args) ==
  \/ Len(file_args(args)) < 2
  \/ ~exists(h, cwd, file_args(args)[1])
  \/ /\ is_directory(h, cwd, file_args(args)[1])
     /\ ~in_args(args, Chars("-r"))
     /\ ~in_args(args, Chars("--recursive"))

\* C26: in a sandboxed session, cp with fewer than two arguments that are not
\* flags, or a missing source, or a directory source and no -r or --recursive,
\* answers with one error (RED) or usage (YELLOW) text and leaves the tree as it was.
C26_CpRefused ==
  [][(/\ mode = "files"
      /\ last'.op = "execute"
      /\ parse(last'.args[1]).ok
      /\ parse(last'.args[1]).cmd = Chars("cp")
      /\ cp_refused(heap, current_path, parse(last'.args[1]).args))
     => /\ heap' = heap
        /\ Len(last'.ret) = 1
        /\ last'.ret[1].kind = "msg"
        /\ last'.ret[1].color \in {"RED", "YELLOW"}]_vars

\* cp of a directory without -r was refused after a cp that copied a file
C26_Witness ==
  /\ mode = "files"
  /\ last.op = "execute"
  /\ last.args[1] = Chars("cp documents new")
  /\ last.ret = <<Msg("RED", "Cannot copy directory: use -r for recursive", Chars("documents"))>>
  /\ command_history = <<Chars("cp /etc/hosts new"), Chars("cp documents new")>>
  /\ is_file(heap, current_path, Chars("new"))

\* the one argument of the touch typed in the step
touched == parse(last'.args[1]).args[1]

\* C27: in a sandboxed session, touch on a path that names a file changes the
\* modified time of that node and nothing else of the tree; touch on a path that
\* names nothing, in a parent that is a directory, adds a file with empty
\* content and size 0 under that path.
C27_Touch ==
  [][(/\ mode = "files"
      /\ last'.op = "execute"
      /\ parse(last'.args[1]).ok
      /\ parse(last'.args[1]).cmd = Chars("touch")
      /\ Len(parse(last'.args[1]).args) = 1)
     => /\ is_file(heap, current_path, touched)
             => /\ heap' = [heap EXCEPT ![get_node(heap, current_path, touched)].modified = now']
                /\ last'.ret = <<Msg("GREEN", "Updated timestamp: ", touched)>>
        /\ (/\ ~exists(heap, current_path, touched)
            /\ has_type(heap, get_parent_node(heap, current_path, touched).parent, "directory"))
             => /\ is_file(heap', current_path, touched)
                /\ heap'[get_node(heap', current_path, touched)].content = ""
                /\ heap'[get_node(heap', current_path, touched)].size = 0
                /\ \A n \in DOMAIN heap :
                     n # get_parent_node(heap, current_path, touched).parent
                       => heap'[n] = heap[n]]_vars

\* the file that the first touch created has the time of the second touch as
\* its modified time, and the time of its creation, content and size as they were
C27_Witness ==
  /\ mode = "files"
  /\ command_history = <<Chars("touch new"), Chars("touch new")>>
  /\ is_file(heap, current_path, Chars("new"))
  /\ heap[get_node(heap, current_path, Chars("new"))].created = 1
  /\ heap[get_node(heap, current_path, Chars("new"))].modified = 2
  /\ heap[get_node(heap, current_path, Chars("new"))].size = 0

\* the names typed after mkdir in the step that do not start with -
mkdir_names == file_args(parse(last'.args[1]).args)

\* C28: mkdir with several names acts on the first name that does not start
\* with - and returns: it adds at most one directory, answers with one text,
\* about that name, and a later name is neither created nor named in the answer.
C28_MkdirFirstNameOnly ==
  [][(/\ mode = "files"
      /\ last'.op = "execute"
      /\ parse(last'.args[1]).ok
      /\ parse(last'.args[1]).cmd = Chars("mkdir")
      /\ mkdir_names # <<>>)
     => /\ Cardinality(DOMAIN heap') <= Cardinality(DOMAIN heap) + 1
        /\ Len(last'.ret) = 1
        /\ last'.ret[1].kind = "msg"
        /\ last'.ret[1].arg = mkdir_names[1]
        /\ \A i \in 2..Len(mkdir_names) :
             mkdir_names[i] # mkdir_names[1]
               => exists(heap', current_path, mkdir_names[i])
                    = exists(heap, current_path, mkdir_names[i])]_vars

\* mkdir a b made a and not b
C28_Witness ==
  /\ mode = "files"
  /\ last.op = "execute"
  /\ last.args[1] = Chars("mkdir a b")
  /\ last.ret = <<Msg("GREEN", "Directory created: ", Chars("a"))>>
  /\ is_directory(heap, current_path, Chars("a"))
  /\ ~exists(heap, current_path, Chars("b"))

\* the line that cmd_ai makes of an interpreted command
reconstructed(c) ==
  IF c.args # <<>> THEN c.cmd \o Chars(" ") \o str_join(Chars(" "), c.args) ELSE c.cmd

\* the step typed a line and left the tree and current_path as direct, the
\* execution of the line cmd_str from the state before, leaves them, with
\* cmd_str executed once in between
as_direct(cmd_str, direct) ==
  /\ heap' = collect(direct.st.heap)
  /\ current_path' = direct.st.current_path
  /\ command_history' = command_history \o <<last'.args[1], cmd_str>>

\* the step is as the direct execution of the one command interpreted from query
ai_as_direct(query, cmds) ==
  Len(cmds) = 1
    => as_direct(reconstructed(cmds[1]),
                 execute(session, reconstructed(cmds[1]), now', TRUE, "returncode 0"))

\* C29 as stated: in a sandboxed session, for a line 'ai q' with q a text of
\* which interpret makes one command, the step leaves the tree and current_path
\* as the execution of that command's line from the same state does, and
\* executes that line once.
C29_AiLineAsDirect ==
  [][(/\ mode = "files"
      /\ last'.op = "execute"
      /\ startswith(last'.args[1], Chars("ai ")))
     => ai_as_direct(SubSeq(last'.args[1], 4, Len(last'.args[1])),
                     interpreter_interpret(SubSeq(last'.args[1], 4, Len(last'.args[1]))))]_vars

\* C29, corrected: in a sandboxed session, for a line that parses to the
\* command ai and arguments, with q the arguments joined by single spaces (the
\* query that cmd_ai is given) and interpret(q) one command, the step leaves the
\* tree and current_path as the execution of that command's line from the same
\* state does, and executes that line once.
C29_AiHandlerAsDirect ==
  [][(/\ mode = "files"
      /\ last'.op = "execute"
      /\ parse(last'.args[1]).ok
      /\ parse(last'.args[1]).cmd = Chars("ai")
      /\ parse(last'.args[1]).args # <<>>)
     => ai_as_direct(str_join(Chars(" "), parse(last'.args[1]).args),
                     interpreter_interpret(str_join(Chars(" "), parse(last'.args[1]).args)))]_vars

\* ai make folder new, typed in /tmp, made /tmp/new as mkdir new does
C29_Witness ==
  /\ mode = "files"
  /\ command_history = <<Chars("cd /tmp"), Chars("ai make folder new"), Chars("mkdir new")>>
  /\ is_directory(heap, Chars("/"), Chars("/tmp/new"))
  /\ current_path = Chars("/tmp")

\* C30: a call of execute at the prompt adds at most one entry to
\* command_history, also when the line is an ai line whose query is
\* interpreted into a command.
C30_HistoryGrowsByOne ==
  [][last'.op = "execute" /\ mode = "files"
       => Len(command_history') <= Len(command_history) + 1]_vars

\* the query that cmd_ai is given in the step: the arguments of the line, joined
ai_query == str_join(Chars(" "), parse(last'.args[1]).args)

\* C31: in a sandboxed session, a line that parses to ai with a query makes
\* execute be entered again at most once: interpret gives no command named ai,
\* so the history gains the line typed and at most one line more, which is not
\* an ai line, and the call returns.
C31_AiNestingBounded ==
  [][(/\ mode = "files"
      /\ last'.op = "execute"
      /\ parse(last'.args[1]).ok
      /\ parse(last'.args[1]).cmd = Chars("ai")
      /\ parse(last'.args[1]).args # <<>>)
     => /\ \A i \in 1..Len(interpreter_interpret(ai_query)) :
             interpreter_interpret(ai_query)[i].cmd # Chars("ai")
        /\ Len(command_history') <= Len(command_history) + 2
        /\ command_history'[Len(command_history) + 1] = last'.args[1]
        /\ \A i \in (Len(command_history) + 2)..Len(command_history') :
             /\ parse(command_history'[i]).ok
             /\ parse(command_history'[i]).cmd # Chars("ai")]_vars

\* the query ai go back, typed after ai, ran cd .. once
C31_Witness ==
  /\ mode = "files"
  /\ last.op = "execute"
  /\ last.args[1] = Chars("ai ai go back")
  /\ command_history = <<Chars("ai ai go back"), Chars("cd ..")>>
  /\ current_path = Chars("/home")

\* a piece of out, or of what a nested execute returned, comes from the else
\* branch of execute: 'Command not found', or the answer of the host shell
RECURSIVE from_fallback(_)
from_fallback(out) ==
  \E i \in 1..Len(out) :
    \/ out[i].kind = "subprocess"
    \/ out[i].kind = "msg" /\ out[i].text = "Command not found: "
    \/ out[i].kind = "indented" /\ from_fallback(out[i].out)

\* C32: after a line that parses to ai with a query, sandboxed or real-mode,
\* every command that interpret made of the query is a key of the dispatch
\* table, nothing in the answer comes from the else branch of execute, and the
\* host shell was not started through subprocess.run.
C32_InterpretedAreRegistered ==
  /\ mode \in {"virtual", "real"}
  /\ last.op = "execute"
  /\ parse(last.args[1]).ok
  /\ parse(last.args[1]).cmd = Chars("ai")
  /\ parse(last.args[1]).args # <<>>
  => /\ \A i \in 1..Len(interpreter_interpret(str_join(Chars(" "), parse(last.args[1]).args))) :
          interpreter_interpret(str_join(Chars(" "), parse(last.args[1]).args))[i].cmd \in commands
     /\ ~from_fallback(last.ret)
     /\ \A i \in 1..Len(last.host) : last.host[i].api # "subprocess.run"

\* in a real-mode session ai where am i ran pwd, a handler of the table
C32_Witness ==
  /\ mode = "real"
  /\ last.op = "execute"
  /\ last.args[1] = Chars("ai where am i")
  /\ command_history[Len(command_history)] = Chars("pwd")
  /\ Len(last.ret) = 3
  /\ last.ret[3].kind = "indented"

\* the entries of the directories reachable from the root that refer to node n
entries_to(h, n) ==
  UNION {{<<d, i>> : i \in {j \in 1..Len(h[d].children) : h[d].children[j][2] = n}} :
           d \in {m \in reach(h, {Root}, {}) : h[m].type = "directory"}}

\* C33: the part of the filesystem reachable from the root is a tree in every
\* reachable state: the root is no directory's child, and every other node
\* reachable from the root is the child of exactly one entry of one reachable
\* directory (so no node is reached by two paths and no directory is its own
\* descendant), whatever sequence of create_directory, create_file, copy_item,
\* move_item and remove_item led there.
C33_ReachableIsTree ==
  HasFilesystem =>
    \A n \in reach(heap, {Root}, {}) :
      Cardinality(entries_to(heap, n)) = IF n = Root THEN 0 ELSE 1

\* a directory has just been moved or copied to a place under itself
C33_Witness ==
  /\ mode = "vfs"
  /\ last.op \in {"move_item", "copy_item"}
  /\ last.ret = TRUE
  /\ last.args[1] = Chars("documents")
  /\ last.args[2] = Chars("documents/new")
  /\ C33_ReachableIsTree

\* the entries of a directory other than those under the given names
entries_but(children, names) ==
  LET other(e) == e[1] \notin names
  IN  SelectSeq(children, other)

\* the node an entry refers to, or none
entry_node(h, pn) ==
  IF is_dir(h, pn.parent) /\ pn.name \in dict_keys(h[pn.parent].children)
  THEN {dict_get(h[pn.parent].children, pn.name)}
  ELSE {}

\* the nodes under the objects in ns, by identity
below(h, ns) == reach(h, ns, {})

\* the entry names of node n that a copy (or move) from src to dst may change
changed_names(op, src, dst, n) ==
  (IF n = dst.parent THEN {dst.name} ELSE {})
    \cup (IF op = "move_item" /\ n = src.parent THEN {src.name} ELSE {})

\* node n is the same before and after, but for the entries under the names
same_but(h, g, n, names) ==
  /\ n \in DOMAIN g
  /\ g[n].type = h[n].type
  /\ IF h[n].type = "directory"
     THEN entries_but(g[n].children, names) = entries_but(h[n].children, names)
     ELSE g[n].content = h[n].content /\ g[n].size = h[n].size

\* the frame of a successful call op(src_path, dst_path) that leads from h to g
others_kept(h, g, cwd, op, src, dst) ==
  \A n \in DOMAIN h \ (below(h, entry_node(h, src)) \cup below(h, entry_node(h, dst))) :
    same_but(h, g, n, changed_names(op, src, dst, n))

\* C34: a successful copy_item(src, dst) or move_item(src, dst) changes only the
\* entry named by dst in the destination parent and, for a move, the entry named
\* by src in the source parent: every node outside the src subtree that is not
\* the former dst entry or one of its descendants is still there with its type,
\* content, size and all its other entries.
C34_CopyMoveFrame ==
  [][(/\ mode = "vfs"
      /\ last'.op \in {"copy_item", "move_item"}
      /\ last'.ret = TRUE)
     => others_kept(heap, heap', current_path, last'.op,
              get_parent_node(heap, current_path, normalize_path(current_path, last'.args[1])),
              get_parent_node(heap, current_path, normalize_path(current_path, last'.args[2])))]_vars

\* /etc/hosts has just been moved over the directory documents of /home/user,
\* whose other entries are still there
C34_Witness ==
  /\ mode = "vfs"
  /\ last.op = "move_item"
  /\ last.ret = TRUE
  /\ last.args = <<Chars("/etc/hosts"), Chars("documents")>>
  /\ current_path = Chars("/home/user")
  /\ has_type(heap, get_node(heap, current_path, Chars("documents")), "file")
  /\ get_node(heap, current_path, Chars("downloads")) # NoNode
  /\ get_node(heap, current_path, Chars("/etc/hosts")) = NoNode

\* path p is absolute and in normal form
is_normalized(p) == p # <<>> /\ Head(p) = "/" /\ normalize_path(Chars("/"), p) = p

\* C35: every path returned by find_files(pattern, search_path) is a normalized
\* absolute path that resolves to an existing node under search_path, whether
\* search_path is absolute or relative to current_path.
C35_FoundAreNormalized ==
  (mode = "listing" /\ last.op = "find_files") =>
    \A i \in 1..Len(last.ret) :
      /\ is_normalized(last.ret[i])
      /\ lookup(heap, last.ret[i]) # NoNode

\* the redirection operators and the keys the specification gives them
Operators == <<Chars(">"), Chars(">>"), Chars("2>"), Chars("<")>>

Keys == <<"stdout", "stdout_append", "stderr", "stdin">>

\* C36: parse_redirections maps each operator to its own key in both forms:
\* for the command echo and the target f, each of >, >>, 2>, < given as a token
\* of its own before the target, or glued to the target as a prefix, gives the
\* one redirection from the operator's key (stdout, stdout_append, stderr,
\* stdin) to f, and the cleaned arguments are echo alone.
C36_EachOperatorItsKey ==
  (mode = "pure" /\ last.op = "parse_redirections") =>
    \A k \in 1..4 :
      last.args[1] \in {<<Chars("echo"), Operators[k], Chars("f")>>,
                        <<Chars("echo"), Operators[k] \o Chars("f")>>}
        => last.ret = [clean_args |-> <<Chars("echo")>>,
                       redirections |-> <<<<Keys[k], Chars("f")>>>>]

\* C37: split_on_operators terminates for every input line, the empty line, a
\* line that begins or ends with && or ||, and a line with two adjacent
\* operators included: every call reaches its return statement.
C37_SplitTerminates == <>(frame.pc = "return")

\* what C37 says of the value returned: the last pair of the list has operator
\* None
C37_LastOperatorIsNone ==
  (mode = "pure" /\ frame.pc = "return" /\ last.ret # <<>>) => last.ret[Len(last.ret)][2] = None

\* C38: the session registry is create-if-absent per key: whatever the
\* interleaving of the requests that bear one session key, a Terminal that has
\* executed a command leaves the registry only when clear_session discards its
\* key, so no command's effect is applied to a Terminal that is then dropped.
C38_CreateIfAbsent ==
  [][\A id \in DOMAIN terminals :
       (mode = "web" /\ terminals[id].command_history # <<>> /\ id \notin DOMAIN terminals')
         => last'.op = "clear_session"]_vars

\* the host shell invocations of the fallback among those of the last call
shell_calls == {n \in 1..Len(last.host) : last.host[n].api = "subprocess.run"}

\* C39: every Terminal created through the session registry is sandboxed
\* (use_virtual is true in every state the Terminal is in), and no request to
\* /api/execute or /api/ai reaches the host-shell fallback of execute: the call
\* records no subprocess.run, and a line whose command is not registered is
\* answered with Command not found.
C39_WebSandboxed ==
  mode = "web" =>
    /\ \A id \in DOMAIN terminals : terminals[id].use_virtual
    /\ shell_calls = {}
    /\ (last.op = "execute_command" /\ last.args[2] = Chars("uname -a"))
         => last.ret \in {<<Msg("RED", "Command not found: ", Chars("uname"))>>,
                          <<Msg("", "error: Server error: ", "KeyError")>>}

\* a request with a line that names no registered command has been answered
C39_Witness ==
  /\ mode = "web"
  /\ last.op = "execute_command"
  /\ last.args[2] = Chars("uname -a")
  /\ last.ret = <<Msg("RED", "Command not found: ", Chars("uname"))>>
  /\ \E id \in DOMAIN terminals : terminals[id].command_history = <<Chars("uname -a")>>

=============================================================================
